---------------------------- MODULE Spec2Model ----------------------------
(***************************************************************************)
(* Model of the scoring and gating code of gmartijn/repochecker:           *)
(*   nuget-audit.py, C#-audit.py  severity normalisation, compute_risk,    *)
(*                                the --fail-below gates                   *)
(*   conda_forge_audit.py         OSV scoring, compute_overall, the gate   *)
(*   pypi_audit.py, dockeraudit.py, githubaudit.py   gates and exit codes  *)
(*                                                                         *)
(* Units.  CVSS scores are integers in thousandths (9.0 is 9000).  Scores  *)
(* on the 0..100 scale are integers in hundredths (100.0 is 10000), and so *)
(* are the gate thresholds.  Weights are integers in hundredths.           *)
(*                                                                         *)
(* Optional and loosely typed JSON values are tagged tuples: None is <<>>, *)
(* a number n is <<"num", n>>, a string s is <<"str", s>>.                 *)
(***************************************************************************)
EXTENDS Integers, Sequences, FiniteSets, TLC

VARIABLES
    pc,             \* position of the run
    tool,           \* which script runs
    rawVulns,       \* the "vulns" list of the OSV response
    vulns,          \* the findings after query_osv_vulns normalised them
    info,           \* nuget_info: published, total_downloads, repo_url, license_expression
                    \* (image_info in the runs of dockeraudit.py)
    gh,             \* GitHub stats: archived, disabled, stars, pushed_at, license
                    \* (org_info and the user type in the runs of dockeraudit.py)
    historyCount,   \* history_count
    historyWeight,  \* history_weight
    tieUp,          \* side on which the binary float sum lands at a decimal tie
    scores,         \* the scores map compute_risk returns
    overall,        \* the overall score
    rating,         \* the rating
    condaOsv,       \* what conda's fetch_osv_vulnerabilities returns
    condaVuln,      \* conda's vulnerabilities score
    items,          \* per requested package, what auditing it yields
    thr,            \* --fail-below
    failAbove,      \* --fail-above (pypi_audit.py)
    osvOnly,        \* --osv-only (nuget-audit.py)
    jsonOut,        \* --json (conda_forge_audit.py)
    results,        \* the results list the run collected
    gateRan,        \* a score was compared with the threshold
    report,         \* the violators the failure message lists, as <<index, score>>
    reportCount,    \* the number of violators the failure message states
    reportMore,     \* the failure message ends with ", ..."
    exitCode,       \* the exit status of the process
    shapes,         \* per record of the OSV response, the JSON shape of its fields
    clock,          \* the wall clock, in days
    runs,           \* what the successive calls of a scorer returned
    wts,            \* the weight handling of a run: override, weights, scores, overall
    sbom,           \* sbom_supply_chain_risk.py on one dependency, or on a batch
    http            \* one call of an HTTP helper of nuget-audit.py: its attempts

scoreVars == <<rawVulns, vulns, info, gh, historyCount, historyWeight, tieUp,
               scores, overall, rating, condaOsv, condaVuln>>

gateVars == <<items, thr, failAbove, osvOnly, jsonOut, results, gateRan, report,
              reportCount, reportMore, exitCode>>

extVars == <<shapes, clock, runs, wts, sbom, http>>

vars == <<pc, tool, scoreVars, gateVars, extVars>>

-----------------------------------------------------------------------------
(* Values *)

None == <<>>
Num(n) == <<"num", n>>
Str(s) == <<"str", s>>
IsNum(x) == Len(x) = 2 /\ x[1] = "num"
IsStr(x) == Len(x) = 2 /\ x[1] = "str"

\* Python truthiness of a JSON value: None, 0 and "" are falsy
Truthy(x) == x # None /\ x # Num(0) /\ x # Str("")

\* a or b
Or(a, b) == IF Truthy(a) THEN a ELSE b

RECURSIVE SeqMax(_)
SeqMax(s) ==
    IF Len(s) = 1 THEN s[1]
    ELSE LET m == SeqMax(Tail(s)) IN IF s[1] >= m THEN s[1] ELSE m

\* str.upper() on the strings the model uses
Upper(s) ==
    CASE s = "cvss_v3" -> "CVSS_V3"
      [] s = "critical" -> "CRITICAL"
      [] s = "high" -> "HIGH"
      [] s = "medium" -> "MEDIUM"
      [] s = "low" -> "LOW"
      [] s = "mit" -> "MIT"
      [] OTHER -> s

-----------------------------------------------------------------------------
(* Severity normalisation: nuget-audit.py and C#-audit.py *)

\* the scores float() accepts among the severity entries whose type is in `types`
RECURSIVE TypedScores(_, _)
TypedScores(sev, types) ==
    IF sev = <<>> THEN <<>>
    ELSE LET s == sev[1]
             rest == TypedScores(Tail(sev), types)
         IN IF Upper(s.type) \in types /\ IsNum(s.score)
            THEN <<s.score[2]>> \o rest
            ELSE rest

\* the database_specific fallback both _max_cvss share
DsFallback(v) ==
    LET score == Or(Or(v.ds.severity, v.ds.cvss), None)
    IN IF IsNum(score) THEN Num(score[2]) ELSE None

MaxCvssOver(v, types) ==
    LET sc == TypedScores(v.severity, types)
    IN IF sc # <<>> THEN Num(SeqMax(sc)) ELSE DsFallback(v)

_max_cvss(v) == MaxCvssOver(v, {"CVSS_V3", "CVSS_V3.1", "CVSS_V4"})

cs_max_cvss(v) == MaxCvssOver(v, {"CVSS_V3"})

\* SevLabelOf with the CRITICAL band exclusive at 9.0
SevLabelOfExclusive(sc, v) ==
    IF sc = None
    THEN LET t == Or(v.ds.severity, Str("UNKNOWN")) IN t[2]
    ELSE IF sc[2] > 9000 THEN "CRITICAL"
    ELSE IF sc[2] >= 7000 THEN "HIGH"
    ELSE IF sc[2] >= 4000 THEN "MEDIUM"
    ELSE "LOW"

\* the label of a record whose maximum score is sc
SevLabelOf(sc, v) ==
    IF sc = None
    THEN LET t == Or(v.ds.severity, Str("UNKNOWN")) IN t[2]
    ELSE IF sc[2] >= 9000 THEN "CRITICAL"
    ELSE IF sc[2] >= 7000 THEN "HIGH"
    ELSE IF sc[2] >= 4000 THEN "MEDIUM"
    ELSE "LOW"

_sev_label(v) == SevLabelOf(_max_cvss(v), v)

cs_sev_label(v) == SevLabelOf(cs_max_cvss(v), v)

\* query_osv_vulns: every record of the response gets _max_cvss and _sev_label
Normalize(v) ==
    [id |-> v.id, max_cvss |-> _max_cvss(v), sev_label |-> _sev_label(v), raw |-> v]

CsNormalize(v) ==
    [id |-> v.id, max_cvss |-> cs_max_cvss(v), sev_label |-> cs_sev_label(v), raw |-> v]

-----------------------------------------------------------------------------
(* Scoring helpers *)

Min(a, b) == IF a <= b THEN a ELSE b
Max(a, b) == IF a >= b THEN a ELSE b

\* max(0.0, min(100.0, x)) in hundredths
Clamp100(x) == Max(0, Min(10000, x))

Inf == <<"inf">>
NaN == <<"nan">>

RECURSIVE Pow10(_)
Pow10(k) == IF k <= 0 THEN 1 ELSE 10 * Pow10(k - 1)

\* 1000 * 10^(j/10) for j = 0..9, rounded up
Mantissa == <<1000, 1259, 1585, 1996, 2512, 3163, 3982, 5012, 6310, 7944>>

\* 10^(t/10) <= n, for 1 <= n < 10^7 and 0 <= t < 70
AtLeastPow(n, t) ==
    LET q == t \div 10
        m == Mantissa[(t % 10) + 1]
    IN IF q >= 3 THEN n >= Pow10(q - 3) * m ELSE n * 1000 >= Pow10(q) * m

\* math.log10(n) in tenths, rounded down; every use clamps at or below 7.0
Log10Tenths(n) ==
    IF n >= 10000000 THEN 70
    ELSE Cardinality({t \in 0..69 : AtLeastPow(n, t)}) - 1

\* days_since: None for a missing or unparsable timestamp, else the age in
\* days, 0 for a timestamp in the future.  A parsable timestamp is Num(age).
days_since(iso) == IF IsNum(iso) THEN Num(Max(0, iso[2])) ELSE None

\* _popularity_score
_popularity_score(downloads) ==
    IF ~IsNum(downloads) \/ downloads[2] <= 0 THEN 0
    ELSE Clamp100((Log10Tenths(downloads[2]) - 30) * 250)

\* licences whose upper-cased text contains the substring
LicenseHas(lic, sub) ==
    CASE sub = "GPL"  -> lic \in {"GPL-3.0", "LGPL-2.1", "AGPL-3.0"}
      [] sub = "AGPL" -> lic \in {"AGPL-3.0"}
      [] sub = "LGPL" -> lic \in {"LGPL-2.1"}
      [] sub = "MPL"  -> lic \in {"MPL-2.0"}
      [] OTHER -> FALSE

-----------------------------------------------------------------------------
(* compute_risk of nuget-audit.py and of C#-audit.py *)

\* max([v.get("_max_cvss") or 0 for v in vulns], default=0)
RECURSIVE WorstCvss(_)
WorstCvss(vs) ==
    IF vs = <<>> THEN 0
    ELSE LET c == IF IsNum(vs[1].max_cvss) THEN vs[1].max_cvss[2] ELSE 0
         IN Max(c, WorstCvss(Tail(vs)))

VulnerabilityScore(vs) ==
    LET n == Len(vs)
        worst == WorstCvss(vs)
        count_part == IF n > 0 THEN Min(7000, 1500 * n) ELSE 0
        worst_part == IF n = 0 THEN 0
                      ELSE IF worst >= 9000 THEN 2000
                      ELSE IF worst >= 7000 THEN 1200
                      ELSE IF worst >= 4000 THEN 600
                      ELSE 0
    IN Clamp100(10000 - count_part - worst_part)

FreshnessScore(published) ==
    LET d == days_since(published)
        cut == IF d = None THEN 1500
               ELSE IF d[2] <= 30 THEN 0
               ELSE IF d[2] <= 90 THEN 1000
               ELSE IF d[2] <= 180 THEN 2000
               ELSE IF d[2] <= 365 THEN 3500
               ELSE 5500
    IN Clamp100(10000 - cut)

\* the part of the repo posture both scripts share
RepoDeductions(g) ==
    LET stars == IF IsNum(g.stars) THEN g.stars[2] ELSE 0
        pdays == days_since(g.pushed_at)
    IN (IF g.archived \/ g.disabled THEN 4000 ELSE 0)
       + (IF stars < 10 THEN 1000 ELSE IF stars < 100 THEN 500 ELSE 0)
       + (IF g.pushed_at = None THEN 1000
          ELSE IF pdays = None THEN 0
          ELSE IF pdays[2] > 365 THEN 2500
          ELSE IF pdays[2] > 180 THEN 1500
          ELSE IF pdays[2] > 90 THEN 800
          ELSE 0)

RepoPostureScore(nuget_info, g) ==
    Clamp100(10000 - (IF nuget_info.repo_url THEN 0 ELSE 1500) - RepoDeductions(g))

\* (license_expression or gh.license or "").upper()
LicenseText(nuget_info, g) ==
    LET l == Or(Or(nuget_info.license_expression, g.license), Str(""))
    IN Upper(l[2])

LicenseScore(nuget_info, g) ==
    LET lic == LicenseText(nuget_info, g)
        first == IF lic = "" THEN 2000
                 ELSE IF LicenseHas(lic, "GPL") \/ LicenseHas(lic, "AGPL") THEN 1000
                 ELSE IF LicenseHas(lic, "LGPL") \/ LicenseHas(lic, "MPL") THEN 500
                 ELSE 0
        second == IF lic \in {"NOASSERTION", "CUSTOM"} THEN 1500 ELSE 0
    IN Clamp100(10000 - first - second)

\* if history_weight and history_weight > 0
HistoryActive(hw) == hw = Inf \/ (IsNum(hw) /\ hw[2] > 0)

HistoryScore(hc) ==
    LET c == IF IsNum(hc) THEN Max(0, hc[2]) ELSE 0
    IN Max(0, 10000 - Min(8000, 800 * c))

BaseDims == {"vulnerabilities", "freshness", "popularity", "repo_posture", "license"}

\* base_weights, in hundredths
BaseWeight(k) ==
    CASE k = "vulnerabilities" -> 40
      [] k = "freshness" -> 20
      [] k = "popularity" -> 15
      [] k = "repo_posture" -> 15
      [] k = "license" -> 10

RECURSIVE SumOver(_, _)
SumOver(S, f) ==
    IF S = {} THEN 0
    ELSE LET k == CHOOSE x \in S : TRUE IN f[k] + SumOver(S \ {k}, f)

\* round(num / den, 1) for a value in hundredths: the nearest multiple of 10;
\* at an exact decimal tie the float sum decides, up when `up`
Round1(num, den, up) ==
    LET d10 == den * 10
        t == num \div d10
        r == num % d10
    IN 10 * (IF 2 * r > d10 \/ (2 * r = d10 /\ up) THEN t + 1 ELSE t)

\* overall is Num(x), or NaN when the weights are (the history weight is inf:
\* total_w is inf, the history weight inf / inf)
WeightedOverall(sc, hw, up) ==
    IF "history" \in DOMAIN sc /\ hw = Inf THEN NaN
    ELSE LET w == [k \in DOMAIN sc |->
                       IF k = "history" THEN Max(0, hw[2]) ELSE BaseWeight(k)]
             total == SumOver(DOMAIN w, w)
             weighted == [k \in DOMAIN sc |-> sc[k] * w[k]]
         IN Num(Round1(SumOver(DOMAIN sc, weighted), total, up))

\* a comparison with NaN is false
Rating(o) ==
    IF IsNum(o) /\ o[2] >= 8000 THEN "low"
    ELSE IF IsNum(o) /\ o[2] >= 6000 THEN "medium"
    ELSE IF IsNum(o) /\ o[2] >= 4000 THEN "high"
    ELSE "critical"

compute_risk(nuget_info, vs, g, hc, hw, up) ==
    LET base == [k \in BaseDims |->
                    CASE k = "vulnerabilities" -> VulnerabilityScore(vs)
                      [] k = "freshness" -> FreshnessScore(nuget_info.published)
                      [] k = "popularity" -> _popularity_score(nuget_info.total_downloads)
                      [] k = "repo_posture" -> RepoPostureScore(nuget_info, g)
                      [] k = "license" -> LicenseScore(nuget_info, g)]
        sc == IF HistoryActive(hw)
              THEN [k \in BaseDims \cup {"history"} |->
                       IF k = "history" THEN HistoryScore(hc) ELSE base[k]]
              ELSE base
        o == WeightedOverall(sc, hw, up)
    IN [scores |-> sc, overall |-> o, rating |-> Rating(o)]

\* compute_risk of C#-audit.py: no repo_url deduction, its own popularity
\* curve, no weak-copyleft or NOASSERTION licence bands, fixed weights
cs_compute_risk(nuget_info, vs, g, up) ==
    LET dl == IF IsNum(nuget_info.total_downloads) THEN nuget_info.total_downloads[2] ELSE 0
        lic == LicenseText(nuget_info, g)
        sc == [k \in BaseDims |->
                  CASE k = "vulnerabilities" -> VulnerabilityScore(vs)
                    [] k = "freshness" -> FreshnessScore(nuget_info.published)
                    [] k = "popularity" ->
                         IF dl <= 0 THEN 0
                         ELSE Clamp100(Min(10000, 2000 + 200 * Log10Tenths(Max(1, dl))))
                    [] k = "repo_posture" -> Clamp100(10000 - RepoDeductions(g))
                    [] k = "license" ->
                         Clamp100(10000 - (IF lic = "" THEN 2000
                                           ELSE IF LicenseHas(lic, "GPL") \/ LicenseHas(lic, "AGPL")
                                           THEN 1000 ELSE 0))]
        weighted == [k \in BaseDims |-> sc[k] * BaseWeight(k)]
        o == Num(Round1(SumOver(BaseDims, weighted), 100, up))
    IN [scores |-> sc, overall |-> o, rating |-> Rating(o)]

-----------------------------------------------------------------------------
(* conda_forge_audit.py: OSV lookup and vulnerability score *)

\* the number one severity entry contributes, None when it contributes none
EntrySeverity(val) ==
    IF IsNum(val) THEN Num(val[2])
    ELSE LET m == IF IsStr(val) THEN Upper(val[2]) ELSE "NONE"
         IN CASE m = "CRITICAL" -> Num(9500)
              [] m = "HIGH" -> Num(8000)
              [] m = "MEDIUM" -> Num(5500)
              [] m = "LOW" -> Num(2500)
              [] OTHER -> None

RECURSIVE EntrySeverities(_)
EntrySeverities(sev) ==
    IF sev = <<>> THEN <<>>
    ELSE LET e == EntrySeverity(sev[1].score)
         IN (IF e = None THEN <<>> ELSE <<e[2]>>) \o EntrySeverities(Tail(sev))

_extract_max_severity(vuln) ==
    LET sc == EntrySeverities(vuln.severity)
    IN IF sc # <<>> THEN SeqMax(sc) ELSE 0

RECURSIVE IdsOf(_)
IdsOf(vs) ==
    IF vs = <<>> THEN <<>>
    ELSE (IF vs[1].id # "" THEN <<vs[1].id>> ELSE <<>>) \o IdsOf(Tail(vs))

RECURSIVE SeveritiesOf(_)
SeveritiesOf(vs) ==
    IF vs = <<>> THEN <<>>
    ELSE (IF vs[1].id # "" THEN <<_extract_max_severity(vs[1])>> ELSE <<>>)
         \o SeveritiesOf(Tail(vs))

\* _query on a 200 response
fetch_osv_vulnerabilities(vs) ==
    LET ids == IdsOf(vs)
    IN [count |-> Num(Len(ids)), ids |-> ids, severities |-> SeveritiesOf(vs)]

\* what fetch_osv_vulnerabilities returns when no query gave a result (the
\* query by repository, when it is made, is taken to give none either)
NoOsvResult == [count |-> None, ids |-> <<>>, severities |-> <<>>]

score_vulnerabilities(count) ==
    IF count = None THEN 10000
    ELSE IF count[2] = 0 THEN 10000
    ELSE IF count[2] = 1 THEN 8000
    ELSE IF count[2] = 2 THEN 6000
    ELSE IF count[2] <= 5 THEN 4000
    ELSE 2000

\* 1000 * math.log1p(c) for c = 1..10, to the nearest integer
Log1pTimes1000 == <<693, 1099, 1386, 1609, 1792, 1946, 2079, 2197, 2303, 2398>>

\* min(30.0, math.log1p(count) * 10.0) in hundredths, for count >= 2
CountPenalty(c) == IF c <= 10 THEN Min(3000, Log1pTimes1000[c]) ELSE Min(3000, 2398 + 50 * (c - 10))

score_vulnerabilities_osv(count, severities) ==
    IF count = None THEN 10000
    ELSE IF severities = <<>> THEN score_vulnerabilities(count)
    ELSE LET max_cvss == SeqMax(severities)
             base == IF count[2] = 0 \/ max_cvss = 0 THEN 10000
                     ELSE IF max_cvss >= 9000 THEN 2000
                     ELSE IF max_cvss >= 7000 THEN 4000
                     ELSE IF max_cvss >= 4000 THEN 6000
                     ELSE 8000
             penalty == IF count[2] <= 1 THEN 0 ELSE CountPenalty(count[2])
         IN Clamp100(base - penalty)

-----------------------------------------------------------------------------
(* JSON shapes of a record's severity and database_specific fields *)

\* sev: "list" (rawVulns holds its object entries; junk: it also held entries
\* that are no objects), "null" (missing, null, 0 or ""), "number" (a
\* non-zero number or true), "string".  ds: "object", "null", "string" (any
\* truthy value that is no object).  A field that is no list / no object is
\* empty in rawVulns.
WellFormed == [sev |-> "list", junk |-> FALSE, ds |-> "object"]

ShapeOf(i) == IF i \in DOMAIN shapes THEN shapes[i] ELSE WellFormed

\* query_osv_vulns raises on the record: the `for` over a number is outside
\* the try of _max_cvss; _sev_label calls .get on database_specific when
\* there is no score.  Entries that are no objects, and the characters of a
\* string, fail inside the try and are skipped.
RecordRaises(sh, sc) == sh.sev = "number" \/ (sh.ds = "string" /\ sc = None)

\* conda's _extract_max_severity raises on the record, which _query catches
CondaRecordRaises(sh) == sh.sev \in {"number", "string"} \/ sh.junk

-----------------------------------------------------------------------------
(* Runs of the scorers *)

\* query_osv_vulns of nuget-audit.py
NugetQuery ==
    /\ pc = "input"
    /\ IF \E i \in 1..Len(rawVulns) : RecordRaises(ShapeOf(i), _max_cvss(rawVulns[i]))
       THEN vulns' = <<>> /\ pc' = "raised"
       ELSE /\ vulns' = [i \in 1..Len(rawVulns) |-> Normalize(rawVulns[i])]
            /\ pc' = "normalized"
    /\ tool' = "nuget"
    /\ UNCHANGED <<rawVulns, info, gh, historyCount, historyWeight, tieUp,
                   scores, overall, rating, condaOsv, condaVuln,
                   gateVars, extVars>>

\* query_osv_vulns of C#-audit.py
CsQuery ==
    /\ pc = "input"
    /\ IF \E i \in 1..Len(rawVulns) : RecordRaises(ShapeOf(i), cs_max_cvss(rawVulns[i]))
       THEN vulns' = <<>> /\ pc' = "raised"
       ELSE /\ vulns' = [i \in 1..Len(rawVulns) |-> CsNormalize(rawVulns[i])]
            /\ pc' = "normalized"
    /\ tool' = "csharp"
    /\ UNCHANGED <<rawVulns, info, gh, historyCount, historyWeight, tieUp,
                   scores, overall, rating, condaOsv, condaVuln,
                   gateVars, extVars>>

NugetComputeRisk ==
    /\ pc = "normalized"
    /\ tool = "nuget"
    /\ LET r == compute_risk(info, vulns, gh, historyCount, historyWeight, tieUp)
       IN /\ scores' = r.scores
          /\ overall' = r.overall
          /\ rating' = r.rating
    /\ pc' = "scored"
    /\ UNCHANGED <<tool, rawVulns, vulns, info, gh, historyCount, historyWeight,
                   tieUp, condaOsv, condaVuln,
                   gateVars, extVars>>

CsComputeRisk ==
    /\ pc = "normalized"
    /\ tool = "csharp"
    /\ LET r == cs_compute_risk(info, vulns, gh, tieUp)
       IN /\ scores' = r.scores
          /\ overall' = r.overall
          /\ rating' = r.rating
    /\ pc' = "scored"
    /\ UNCHANGED <<tool, rawVulns, vulns, info, gh, historyCount, historyWeight,
                   tieUp, condaOsv, condaVuln,
                   gateVars, extVars>>

CondaFetchOsv ==
    /\ pc = "input"
    /\ condaOsv' = IF \E i \in 1..Len(rawVulns) :
                          rawVulns[i].id # "" /\ CondaRecordRaises(ShapeOf(i))
                   THEN NoOsvResult
                   ELSE fetch_osv_vulnerabilities(rawVulns)
    /\ tool' = "conda"
    /\ pc' = "fetched"
    /\ UNCHANGED <<rawVulns, vulns, info, gh, historyCount, historyWeight, tieUp,
                   scores, overall, rating, condaVuln,
                   gateVars, extVars>>

CondaScoreVulns ==
    /\ pc = "fetched"
    /\ tool = "conda"
    /\ condaVuln' = Num(score_vulnerabilities_osv(condaOsv.count, condaOsv.severities))
    /\ pc' = "scored"
    /\ UNCHANGED <<tool, rawVulns, vulns, info, gh, historyCount, historyWeight,
                   tieUp, scores, overall, rating, condaOsv,
                   gateVars, extVars>>

-----------------------------------------------------------------------------
(* Inputs *)

SeqsUpTo(S, n) == UNION {[1..k -> S] : k \in 0..n}

NoDs == [severity |-> None, cvss |-> None]

\* a record with one CVSS_V3 entry of the given score
Scored(id, s) ==
    [id |-> id, severity |-> <<[type |-> "CVSS_V3", score |-> Num(s)]>>, ds |-> NoDs]

\* a record as GitHub advisories come: a CVSS vector string, the label as text
Labelled(id, label) ==
    [id |-> id,
     severity |-> <<[type |-> "CVSS_V3", score |-> Str("CVSS:3.1/AV:N/AC:L")]>>,
     ds |-> [severity |-> Str(label), cvss |-> None]]

Bare(id) == [id |-> id, severity |-> <<>>, ds |-> NoDs]

EmptyInfo ==
    [published |-> None, total_downloads |-> None, repo_url |-> FALSE,
     license_expression |-> None]

EmptyGh ==
    [archived |-> FALSE, disabled |-> FALSE, stars |-> None, pushed_at |-> None,
     license |-> None]

\* the variables a run does not use
ExtInit ==
    /\ shapes = <<>>
    /\ clock = 0
    /\ runs = <<>>
    /\ wts = <<>>
    /\ http = <<>>
    /\ sbom = <<>>

\* the state before anything ran, for the given inputs
InitOf(RV, INFO, GH, HC, HW, TIE) ==
    /\ pc = "input"
    /\ tool = ""
    /\ rawVulns \in RV
    /\ info \in INFO
    /\ gh \in GH
    /\ historyCount \in HC
    /\ historyWeight \in HW
    /\ tieUp \in TIE
    /\ vulns = <<>>
    /\ scores = <<>>
    /\ overall = None
    /\ rating = ""
    /\ condaOsv = None
    /\ condaVuln = None
    /\ items = <<>>
    /\ thr = None
    /\ failAbove = None
    /\ osvOnly = FALSE
    /\ jsonOut = FALSE
    /\ results = <<>>
    /\ gateRan = FALSE
    /\ report = <<>>
    /\ reportCount = None
    /\ reportMore = FALSE
    /\ exitCode = None

NextScore ==
    \/ NugetQuery
    \/ CsQuery
    \/ NugetComputeRisk
    \/ CsComputeRisk
    \/ CondaFetchOsv
    \/ CondaScoreVulns

(* Severity normalisation on one record of every shape *)

MaxSevEntries == 2

ScoreSamples == {0, 1, 2500, 3999, 4000, 6999, 7000, 8999, 9000, 10000}

SeverityEntries ==
    [type : {"CVSS_V2", "CVSS_V3", "CVSS_V4"},
     score : {Num(s) : s \in ScoreSamples} \cup {Str("CVSS:3.1/AV:N/AC:L")}]

SeverityRecords ==
    [id : {"OSV-1"},
     severity : SeqsUpTo(SeverityEntries, MaxSevEntries),
     ds : [severity : {None, Num(0), Str("CRITICAL")}, cvss : {None, Num(7500)}]]

InitSeverity ==
    /\ InitOf({<<v>> : v \in SeverityRecords}, {EmptyInfo}, {EmptyGh}, {None}, {Num(0)}, {FALSE})
    /\ ExtInit

NextSeverity == NugetQuery \/ CsQuery

SpecSeverity == InitSeverity /\ [][NextSeverity]_vars

(* The vulnerability scorers on every finding list up to MaxVulns *)

MaxVulns == 5

VulnSamples ==
    {Scored("OSV-1", 9000), Scored("OSV-2", 7000), Scored("OSV-3", 4000),
     Labelled("OSV-4", "CRITICAL"), Bare("OSV-5")}

InitVuln ==
    /\ InitOf(SeqsUpTo(VulnSamples, MaxVulns),
              {EmptyInfo, [EmptyInfo EXCEPT !.published = Num(10), !.total_downloads = Num(12000000)]},
              {EmptyGh}, {None}, {Num(0)}, BOOLEAN)
    /\ ExtInit

SpecVuln == InitVuln /\ [][NextScore]_vars

(* compute_risk on combinations of all its inputs *)

MaxRiskVulns == 1

InitRisk ==
    /\ InitOf(SeqsUpTo({Scored("OSV-1", 9000), Bare("OSV-5")}, MaxRiskVulns),
              [published : {None, Num(-3), Num(100), Num(400)},
               total_downloads : {None, Num(50000), Num(12000000)},
               repo_url : BOOLEAN,
               license_expression : {None, Str("MIT"), Str("NOASSERTION")}],
              [archived : BOOLEAN, disabled : {FALSE}, stars : {None, Num(2000)},
               pushed_at : {None, Num(800)}, license : {None}],
              {None, Num(20)},
              {Num(0), Num(25), Inf, NaN},
              BOOLEAN)
    /\ ExtInit

NextRisk == NugetQuery \/ CsQuery \/ NugetComputeRisk \/ CsComputeRisk

SpecRisk == InitRisk /\ [][NextRisk]_vars

(* compute_risk on every licence, from NuGet and from GitHub *)

Licenses ==
    {None, Str("MIT"), Str("mit"), Str("APACHE-2.0"), Str("GPL-3.0"), Str("AGPL-3.0"),
     Str("LGPL-2.1"), Str("MPL-2.0"), Str("NOASSERTION"), Str("CUSTOM"), Str("WTFPL")}

InitLicense ==
    /\ InitOf({<<>>},
              [published : {Num(10)}, total_downloads : {Num(50000)}, repo_url : {TRUE},
               license_expression : Licenses],
              [archived : {FALSE}, disabled : {FALSE}, stars : {Num(2000)},
               pushed_at : {Num(10)}, license : Licenses],
              {None}, {Num(0)}, {FALSE})
    /\ ExtInit

SpecLicense == InitLicense /\ [][NextRisk]_vars

(* compute_risk on the abandoned package: no downloads, an archived
   repository last pushed 800 days ago, no licence, one critical and one
   high finding *)

CriticalFindings ==
    {Scored("OSV-1", 9000), Scored("OSV-1", 9800), Scored("OSV-1", 10000),
     Labelled("OSV-1", "CRITICAL")}

HighFindings ==
    {Scored("OSV-2", 7000), Scored("OSV-2", 8000), Scored("OSV-2", 8999),
     Labelled("OSV-2", "HIGH")}

InitScenario ==
    /\ InitOf({<<c, h>> : c \in CriticalFindings, h \in HighFindings}
                 \cup {<<h, c>> : c \in CriticalFindings, h \in HighFindings},
              [published : {None, Num(10), Num(400)},
               total_downloads : {None, Num(0)},
               repo_url : BOOLEAN,
               license_expression : {None}],
              [archived : {TRUE}, disabled : BOOLEAN, stars : {None, Num(2000)},
               pushed_at : {Num(800)}, license : {None}],
              {None}, {Num(0)}, {FALSE})
    /\ ExtInit

SpecScenario == InitScenario /\ [][NextRisk]_vars

(* Severity normalisation on responses with malformed records *)

MaxShapeRecords == 2

ShapeSamples == {Scored("OSV-1", 9000), Labelled("OSV-4", "CRITICAL"), Bare("OSV-5")}

RecordShapes == [sev : {"list", "null", "number", "string"}, junk : BOOLEAN,
                 ds : {"object", "null", "string"}]

\* the fields rawVulns holds agree with the shape
Shaped(v, sh) ==
    /\ sh.sev # "list" => (v.severity = <<>> /\ ~sh.junk)
    /\ sh.ds # "object" => v.ds = NoDs

InitShape ==
    /\ InitOf(SeqsUpTo(ShapeSamples, MaxShapeRecords) \ {<<>>}, {EmptyInfo}, {EmptyGh},
              {None}, {Num(0)}, {FALSE})
    /\ shapes \in [1..Len(rawVulns) -> RecordShapes]
    /\ clock = 0
    /\ runs = <<>>
    /\ wts = <<>>
    /\ http = <<>>
    /\ sbom = <<>>
    /\ \A i \in 1..Len(rawVulns) : Shaped(rawVulns[i], shapes[i])

NextShape == NugetQuery \/ CsQuery \/ CondaFetchOsv

SpecShape == InitShape /\ [][NextShape]_vars

-----------------------------------------------------------------------------
(* Weights and aggregation: conda_forge_audit.py, nuget-audit.py, pypi_audit.py *)

\* A weight map is [w |-> key -> Num(n) or NaN, den |-> d]: the weight of key
\* k is w[k] / d.

\* DEFAULT_WEIGHTS, in hundredths
DefaultWeight(k) ==
    CASE k = "vulnerabilities" -> 30
      [] k = "freshness" -> 20
      [] k = "popularity" -> 20
      [] k = "repo_posture" -> 20
      [] k = "license" -> 10

DEFAULT_WEIGHTS == [w |-> [k \in BaseDims |-> Num(DefaultWeight(k))], den |-> 100]

\* out[k.strip()] = float(v) for every pair of --weights; a value float()
\* rejects is skipped; float() accepts "inf"
RECURSIVE ApplyPairs(_, _)
ApplyPairs(out, pairs) ==
    IF pairs = <<>> THEN out
    ELSE LET k == pairs[1][1]
             v == pairs[1][2]
             next == IF IsNum(v) \/ v = Inf
                     THEN [x \in DOMAIN out \cup {k} |-> IF x = k THEN v ELSE out[x]]
                     ELSE out
         IN ApplyPairs(next, Tail(pairs))

\* sum(out.values()): inf as soon as one value is
SumWeights(out) ==
    IF \E k \in DOMAIN out : out[k] = Inf THEN Inf
    ELSE Num(SumOver(DOMAIN out, [k \in DOMAIN out |-> out[k][2]]))

\* parse_weights; x / inf is 0.0 and inf / inf is nan
parse_weights(arg) ==
    IF arg = <<>> THEN DEFAULT_WEIGHTS
    ELSE LET out == ApplyPairs(DEFAULT_WEIGHTS.w, arg)
             sm == SumWeights(out)
         IN IF sm = Inf
            THEN [w |-> [k \in DOMAIN out |-> IF out[k] = Inf THEN NaN ELSE Num(0)],
                  den |-> 1]
            ELSE IF sm[2] <= 0 THEN DEFAULT_WEIGHTS
            ELSE [w |-> out, den |-> sm[2]]

\* compute_overall, rounded down to hundredths; with a nan weight the total
\* is nan, min(100.0, nan) is 100.0
compute_overall(sc, weights) ==
    IF \E k \in DOMAIN weights.w : weights.w[k] = NaN THEN 10000
    ELSE LET part == [k \in DOMAIN weights.w |->
                         (IF k \in DOMAIN sc THEN sc[k] ELSE 0) * weights.w[k][2]]
         IN Clamp100(SumOver(DOMAIN part, part) \div weights.den)

\* the weights compute_risk of nuget-audit.py applies: base_weights, the
\* history weight when the history dimension is scored, each over their sum
NugetWeights(hw) ==
    IF ~HistoryActive(hw)
    THEN [w |-> [k \in BaseDims |-> Num(BaseWeight(k))], den |-> 100]
    ELSE IF hw = Inf
    THEN [w |-> [k \in BaseDims \cup {"history"} |-> IF k = "history" THEN NaN ELSE Num(0)],
          den |-> 1]
    ELSE [w |-> [k \in BaseDims \cup {"history"} |->
                    IF k = "history" THEN Num(Max(0, hw[2])) ELSE Num(BaseWeight(k))],
          den |-> 100 + Max(0, hw[2])]

\* WEIGHTS["vulns_known_none"] and the sum of the other fourteen WEIGHTS, in
\* hundredths of a point
PypiOsvWeight == 600
PypiOtherWeight == 9400

\* the score of the vulnerabilities_known_osv metric of score_one
PypiOsvScore(include_osv, osv_count) ==
    IF include_osv /\ osv_count # None
    THEN IF osv_count[2] = 0 THEN PypiOsvWeight
         ELSE Max(0, Min(PypiOsvWeight, PypiOsvWeight - 120 * osv_count[2]))
    ELSE 0

\* health_percent of score_one, for `good` points of the other metrics:
\* every metric is appended with its weight, scored or skipped
PypiHealth(good, include_osv, osv_count) ==
    LET score_total_good == good + PypiOsvScore(include_osv, osv_count)
        score_max == PypiOtherWeight + PypiOsvWeight
    IN Round1(score_total_good * 10000, score_max, FALSE)

CondaParseWeights ==
    /\ pc = "input"
    /\ tool = "conda_weights"
    /\ wts' = [wts EXCEPT !.weights = parse_weights(wts.override)]
    /\ pc' = "weighted"
    /\ UNCHANGED <<tool, scoreVars, gateVars, shapes, clock, runs, sbom, http>>

CondaComputeOverall ==
    /\ pc = "weighted"
    /\ tool = "conda_weights"
    /\ wts' = [wts EXCEPT !.overall = Num(compute_overall(wts.scores, wts.weights))]
    /\ pc' = "scored"
    /\ UNCHANGED <<tool, scoreVars, gateVars, shapes, clock, runs, sbom, http>>

NugetWeigh ==
    /\ pc = "input"
    /\ tool = "nuget_weights"
    /\ wts' = [wts EXCEPT !.weights = NugetWeights(wts.history_weight)]
    /\ pc' = "weighted"
    /\ UNCHANGED <<tool, scoreVars, gateVars, shapes, clock, runs, sbom, http>>

PypiAggregate ==
    /\ pc = "input"
    /\ tool = "pypi_score"
    /\ wts' = [wts EXCEPT !.overall = Num(PypiHealth(wts.good, wts.include_osv, wts.osv_count))]
    /\ pc' = "scored"
    /\ UNCHANGED <<tool, scoreVars, gateVars, shapes, clock, runs, sbom, http>>

(* Inputs of the weight handling *)

MaxOverride == 2

WeightKeys == {"vulnerabilities", "license", "maintenance"}

WeightValues == {Num(-60), Num(0), Num(50), Inf, Str("x")}

ScoreMaps ==
    {[k \in BaseDims |-> 10000],
     [k \in BaseDims |-> CASE k = "vulnerabilities" -> 2000
                           [] k = "freshness" -> 8000
                           [] k = "popularity" -> 5000
                           [] k = "repo_posture" -> 6000
                           [] k = "license" -> 10000]}

WeightInputs(t) ==
    CASE t = "conda_weights" ->
           [override : SeqsUpTo(WeightKeys \X WeightValues, MaxOverride),
            scores : ScoreMaps, weights : {None}, overall : {None}]
      [] t = "nuget_weights" ->
           [history_weight : {Num(-10), Num(0), Num(25), Num(100), Inf},
            weights : {None}]
      [] t = "pypi_score" ->
           [good : {0, 4700, 9400}, include_osv : BOOLEAN,
            osv_count : {None, Num(0), Num(3), Num(7)}, overall : {None}]

\* the variables of the scorers and of the gates, for a run that uses neither
IdleScore ==
    /\ rawVulns = <<>>
    /\ vulns = <<>>
    /\ info = EmptyInfo
    /\ gh = EmptyGh
    /\ historyCount = None
    /\ historyWeight = Num(0)
    /\ tieUp = FALSE
    /\ scores = <<>>
    /\ overall = None
    /\ rating = ""
    /\ condaOsv = None
    /\ condaVuln = None

IdleGate ==
    /\ items = <<>>
    /\ thr = None
    /\ failAbove = None
    /\ osvOnly = FALSE
    /\ jsonOut = FALSE
    /\ results = <<>>
    /\ gateRan = FALSE
    /\ report = <<>>
    /\ reportCount = None
    /\ reportMore = FALSE
    /\ exitCode = None

InitWeights ==
    /\ pc = "input"
    /\ tool \in {"conda_weights", "nuget_weights", "pypi_score"}
    /\ wts \in WeightInputs(tool)
    /\ IdleScore
    /\ IdleGate
    /\ shapes = <<>>
    /\ clock = 0
    /\ runs = <<>>
    /\ sbom = <<>>
    /\ http = <<>>

NextWeights == CondaParseWeights \/ CondaComputeOverall \/ NugetWeigh \/ PypiAggregate

SpecWeights == InitWeights /\ [][NextWeights]_vars

-----------------------------------------------------------------------------
(* The wall clock: days_since reads datetime.now() *)

MaxClock == 2

\* (datetime.now(timezone.utc) - d).days for the timestamp of day ts, read
\* when the clock shows `now`; days_since takes the result
AgeAt(ts, now) == IF IsNum(ts) THEN Num(now - ts[2]) ELSE ts

\* one call of compute_risk of nuget-audit.py on the package whose published
\* and pushed_at timestamps are info.published and gh.pushed_at, as days on
\* the scale of the clock
ClockRun ==
    /\ pc = "input"
    /\ tool = "nuget_clock"
    /\ Len(runs) < 2
    /\ runs' = Append(runs,
                      compute_risk([info EXCEPT !.published = AgeAt(@, clock)], <<>>,
                                   [gh EXCEPT !.pushed_at = AgeAt(@, clock)],
                                   historyCount, historyWeight, tieUp))
    /\ UNCHANGED <<pc, tool, scoreVars, gateVars, shapes, clock, wts, sbom, http>>

\* a day passes
Tick ==
    /\ pc = "input"
    /\ tool = "nuget_clock"
    /\ clock < MaxClock
    /\ clock' = clock + 1
    /\ UNCHANGED <<pc, tool, scoreVars, gateVars, shapes, runs, wts, sbom, http>>

InitClock ==
    /\ pc = "input"
    /\ tool = "nuget_clock"
    /\ rawVulns = <<>>
    /\ vulns = <<>>
    /\ info \in [published : {None, Num(-400), Num(-180), Num(-90), Num(-30), Num(-5), Num(1)},
                 total_downloads : {Num(50000)}, repo_url : {TRUE},
                 license_expression : {Str("MIT")}]
    /\ gh \in [archived : {FALSE}, disabled : {FALSE}, stars : {Num(2000)},
               pushed_at : {None, Num(-365), Num(-90), Num(-10)}, license : {None}]
    /\ historyCount = None
    /\ historyWeight = Num(0)
    /\ tieUp = FALSE
    /\ scores = <<>>
    /\ overall = None
    /\ rating = ""
    /\ condaOsv = None
    /\ condaVuln = None
    /\ IdleGate
    /\ shapes = <<>>
    /\ clock = 0
    /\ runs = <<>>
    /\ wts = <<>>
    /\ http = <<>>
    /\ sbom = <<>>

NextClock == ClockRun \/ Tick

SpecClock == InitClock /\ [][NextClock]_vars

-----------------------------------------------------------------------------
(* sbom_supply_chain_risk.py: version resolution and hygiene *)

\* A string is the sequence of its characters; None and "" are both <<>>,
\* which the code treats alike (`if not version_info`, `vi or ""`).

IsDigit(c) == c \in {"0", "1", "2", "3", "4", "5", "6", "7", "8", "9"}

\* \w, on the characters the model uses
IsWordChar(c) ==
    c \notin {" ", ".", "-", "+", "~", "^", "<", ">", "=", "!", ",", "*", "@", "/", ":"}

Starts(s, i, lit) ==
    /\ i + Len(lit) - 1 <= Len(s)
    /\ \A k \in 1..Len(lit) : s[i + k - 1] = lit[k]

\* \s* from position i: the position after the white space
RECURSIVE SkipWs(_, _)
SkipWs(s, i) == IF i <= Len(s) /\ s[i] = " " THEN SkipWs(s, i + 1) ELSE i

\* \d* from position i: the position after the digits
RECURSIVE DigitsEnd(_, _)
DigitsEnd(s, i) == IF i <= Len(s) /\ IsDigit(s[i]) THEN DigitsEnd(s, i + 1) ELSE i

\* \d+\.\d+\.\d+ from position i: the position after it, 0 when it does not match
CoreEnd(s, i) ==
    LET a == DigitsEnd(s, i)
    IN IF a = i \/ a > Len(s) \/ s[a] # "." THEN 0
       ELSE LET b == DigitsEnd(s, a + 1)
            IN IF b = a + 1 \/ b > Len(s) \/ s[b] # "." THEN 0
               ELSE LET c == DigitsEnd(s, b + 1)
                    IN IF c = b + 1 THEN 0 ELSE c

\* the last position of s that is no white space, 0 when there is none
RECURSIVE LastInk(_, _)
LastInk(s, j) == IF j >= 1 /\ s[j] = " " THEN LastInk(s, j - 1) ELSE j

\* str.strip()
Strip(s) == SubSeq(s, SkipWs(s, 1), LastInk(s, Len(s)))

\* v? from position i
AfterV(s, i) == IF Starts(s, i, <<"v">>) THEN i + 1 ELSE i

\* EXACT_RE.match(s): group 2, <<>> when there is no match
EXACT_RE(s) ==
    LET a == SkipWs(s, 1)
        b == IF Starts(s, a, <<"=", "=">>) THEN a + 2
             ELSE IF Starts(s, a, <<"=">>) THEN a + 1 ELSE a
        d == AfterV(s, SkipWs(s, b))
        e == CoreEnd(s, d)
    IN IF e # 0 /\ SkipWs(s, e) = Len(s) + 1 THEN SubSeq(s, d, e - 1) ELSE <<>>

\* LOWERBOUND_RE.match(s): group 1
LOWERBOUND_RE(s) ==
    LET a == SkipWs(s, 1)
        d == AfterV(s, SkipWs(s, a + 2))
        e == CoreEnd(s, d)
    IN IF Starts(s, a, <<">", "=">>) /\ e # 0 /\ SkipWs(s, e) = Len(s) + 1
       THEN SubSeq(s, d, e - 1) ELSE <<>>

\* RANGE_LOWERBOUND_RE.match(s): group 1
RANGE_LOWERBOUND_RE(s) ==
    LET a == SkipWs(s, 1)
        d == AfterV(s, SkipWs(s, a + 2))
        e == CoreEnd(s, d)
        f == SkipWs(s, e)
        g == SkipWs(s, f + 1)
        h == AfterV(s, SkipWs(s, g + 1))
        k == CoreEnd(s, h)
    IN IF /\ Starts(s, a, <<">", "=">>) /\ e # 0
          /\ Starts(s, f, <<",">>) /\ Starts(s, g, <<"<">>)
          /\ k # 0 /\ SkipWs(s, k) = Len(s) + 1
       THEN SubSeq(s, d, e - 1) ELSE <<>>

\* SEMVER_RE matches at position i: a word boundary, three dotted numbers,
\* then one of [-+~.^<>=! ] or the end
SemverAt(s, i) ==
    LET e == CoreEnd(s, i)
    IN /\ IsDigit(s[i])
       /\ (i = 1 \/ ~IsWordChar(s[i - 1]))
       /\ e # 0
       /\ (e = Len(s) + 1 \/ s[e] \in {"-", "+", "~", ".", "^", "<", ">", "=", "!", " "})

\* SEMVER_RE.search(s): the three numbers of the leftmost match, dotted
SEMVER_RE(s) ==
    LET at == {i \in 1..Len(s) : SemverAt(s, i)}
    IN IF at = {} THEN <<>>
       ELSE LET i == CHOOSE x \in at : \A y \in at : x <= y
            IN SubSeq(s, i, CoreEnd(s, i) - 1)

guess_version_from_versioninfo(version_info, strategy) ==
    LET s == Strip(version_info)
    IN IF version_info = <<>> THEN <<>>
       ELSE IF EXACT_RE(s) # <<>> THEN EXACT_RE(s)
       ELSE IF strategy \in {"exact", "none"} THEN <<>>
       ELSE IF LOWERBOUND_RE(s) # <<>> THEN LOWERBOUND_RE(s)
       ELSE IF RANGE_LOWERBOUND_RE(s) # <<>> THEN RANGE_LOWERBOUND_RE(s)
       ELSE SEMVER_RE(s)

\* has_exact of compute_risk
HasExact(vi, assumed) ==
    assumed # <<>> /\ (EXACT_RE(Strip(vi)) # <<>> \/ EXACT_RE(Strip(assumed)) # <<>>)

\* str.lower() on the letters the model uses
LowerChar(c) ==
    CASE c = "H" -> "h" [] c = "E" -> "e" [] c = "A" -> "a" [] c = "D" -> "d"
      [] OTHER -> c

Lower(s) == [i \in 1..Len(s) |-> LowerChar(s[i])]

\* downloadLocation values: "NOASSERTION", a git URL without and with an
\* @ref, an archive URL
DownloadLocations == {"NOASSERTION", "git+https://host/repo", "git+https://host/repo@abc123",
                      "https://host/pkg.tgz"}

is_floating_branch_or_unpinned(pkg) ==
    \/ Lower(Strip(pkg.versionInfo)) \in
          {<<"m", "a", "i", "n">>, <<"m", "a", "s", "t", "e", "r">>,
           <<"h", "e", "a", "d">>, <<"t", "r", "u", "n", "k">>}
    \/ pkg.downloadLocation = "git+https://host/repo"

\* the points of base_hygiene_risk
base_hygiene_risk(pkg, has_exact_version) ==
    (IF ~has_exact_version THEN 12 ELSE 0)
    + (IF is_floating_branch_or_unpinned(pkg) THEN 18 ELSE 0)
    + (IF pkg.downloadLocation = "NOASSERTION" THEN 5 ELSE 0)
    + (IF pkg.filesAnalyzed = FALSE THEN 3 ELSE 0)

\* the ids compute_risk keeps of one query's result: the ids that are
\* strings, in the order of the response
RECURSIVE StringIds(_)
StringIds(vs) ==
    IF vs = <<>> THEN <<>>
    ELSE (IF IsStr(vs[1]) THEN <<vs[1][2]>> ELSE <<>>) \o StringIds(Tail(vs))

\* the reasons of base_hygiene_risk, in the order the rules are tried
hygiene_reasons(pkg, has_exact_version) ==
    (IF ~has_exact_version THEN <<"not pinned">> ELSE <<>>)
    \o (IF is_floating_branch_or_unpinned(pkg) THEN <<"floating">> ELSE <<>>)
    \o (IF pkg.downloadLocation = "NOASSERTION" THEN <<"downloadLocation=NOASSERTION">> ELSE <<>>)
    \o (IF pkg.filesAnalyzed = FALSE THEN <<"filesAnalyzed=false">> ELSE <<>>)

\* int(round(clamp((cvss / 10.0) ** 1.3 * 30.0, 0, 30))) of vuln_points, for
\* the CVSS scores the model uses (in tenths)
CvssPoints(c) ==
    CASE c = 0 -> 0 [] c = 40 -> 9 [] c = 75 -> 21 [] c = 98 -> 29 [] c = 100 -> 30

\* A vulnerability document as osv_get_vuln returns it, or, with error set,
\* the {"id", "error"} stand-in of a failed fetch.  cvss is the first numeric
\* severity score (extract_cvss_score), label the upper-cased
\* ecosystem_specific severity (extract_osv_severity_label), "" for none.
VulnDoc(error, cvss, label) == [error |-> error, cvss |-> cvss, label |-> label]

vuln_points(vuln) ==
    IF vuln.cvss # None THEN CvssPoints(vuln.cvss[2])
    ELSE CASE vuln.label = "CRITICAL" -> 30
           [] vuln.label = "HIGH" -> 22
           [] vuln.label = "MEDIUM" -> 12
           [] vuln.label = "LOW" -> 6
           [] OTHER -> 8

\* pts of the scoring loop: 5 for a fetch error, else vuln_points
DetailPoints(vdoc) == IF vdoc.error THEN 5 ELSE vuln_points(vdoc)

RECURSIVE SumPoints(_)
SumPoints(docs) == IF docs = <<>> THEN 0 ELSE DetailPoints(docs[1]) + SumPoints(Tail(docs))

\* what the detail fetches of one finding can return: one document per id
DetailFetches(fetch_vuln_details, ids, docs) ==
    IF fetch_vuln_details /\ ids # <<>> THEN [1..Len(ids) -> docs] ELSE {<<>>}

\* vuln_points_total of the scoring loop
VulnPointsTotal(fetch_vuln_details, ids, vdocs) ==
    IF fetch_vuln_details /\ ids # <<>> THEN SumPoints(vdocs) ELSE Min(30, 6 * Len(ids))

VulnDocs ==
    {VulnDoc(TRUE, None, ""), VulnDoc(FALSE, Num(98), ""),
     VulnDoc(FALSE, None, "HIGH"), VulnDoc(FALSE, None, "")}

\* compute_risk, "Build findings + OSV querybatch payload", for the one
\* dependency of the SBOM
SbomBuildFinding ==
    /\ pc = "input"
    /\ tool = "sbom"
    /\ LET assumed == guess_version_from_versioninfo(sbom.pkg.versionInfo, sbom.assume_version)
           has_exact == HasExact(sbom.pkg.versionInfo, assumed)
       IN sbom' = [sbom EXCEPT
                      !.assumed_version = assumed,
                      !.has_exact = has_exact,
                      !.hygiene_points = base_hygiene_risk(sbom.pkg, has_exact),
                      !.hygiene_reasons = hygiene_reasons(sbom.pkg, has_exact),
                      !.risk_points_total = base_hygiene_risk(sbom.pkg, has_exact),
                      !.do_osv = sbom.pkg.purl /\ (assumed # <<>> \/ sbom.include_unversioned)]
    /\ pc' = "built"
    /\ UNCHANGED <<tool, scoreVars, gateVars, shapes, clock, runs, wts, http>>

\* compute_risk, "Query OSV in bulk" and the scoring loop: the ids of the
\* answer, ids[:max_vulns_per_pkg], the detail fetches and the points
SbomQueryOsv ==
    /\ pc = "built"
    /\ tool = "sbom"
    /\ LET all == IF sbom.do_osv THEN StringIds(sbom.response) ELSE <<>>
           ids == SubSeq(all, 1, Min(Len(all), sbom.max_vulns_per_pkg))
       IN \E vdocs \in DetailFetches(sbom.fetch_vuln_details, ids, VulnDocs) :
             LET pts == VulnPointsTotal(sbom.fetch_vuln_details, ids, vdocs)
             IN sbom' = [sbom EXCEPT
                            !.vuln_ids = ids,
                            !.vulns = vdocs,
                            !.vuln_points_total = pts,
                            !.risk_points_total = sbom.hygiene_points + pts]
    /\ pc' = "queried"
    /\ UNCHANGED <<tool, scoreVars, gateVars, shapes, clock, runs, wts, http>>

(* Inputs of the SBOM runs *)

MaxOsvIds == 2

VersionInfos ==
    {
     <<"<", "2", ".", "0", ".", "0">>,                       \* '<2.0.0'
     <<"!", "=", "1", ".", "2", ".", "3">>,                  \* '!=1.2.3'
     <<"2", ".", "3", "1", ".", "0">>,                       \* '2.31.0'
     <<"=", "=", "2", ".", "3", "1", ".", "0">>,             \* '==2.31.0'
     <<"=", " ", "2", ".", "3", "1", ".", "0">>,             \* '= 2.31.0'
     <<"v", "2", ".", "3", "1", ".", "0">>,                  \* 'v2.31.0'
     <<" ", "2", ".", "3", "1", ".", "0", " ">>,             \* ' 2.31.0 '
     <<">", "=", "1", ".", "2", ".", "3">>,                  \* '>=1.2.3'
     <<">", "=", " ", "1", ".", "2", ".", "3">>,             \* '>= 1.2.3'
     <<">", "=", "1", ".", "2", ".", "3", ",", "<", "2", ".", "0", ".", "0">>, \* '>=1.2.3,<2.0.0'
     <<">", "=", "1", ".", "2", ".", "3", ",", " ", "<", "2", ".", "0", ".", "0">>, \* '>=1.2.3, <2.0.0'
     <<"=", "=", "1", ".", "2", ".", "3", "-", "b", "e", "t", "a", ".", "1">>, \* '==1.2.3-beta.1'
     <<"1", ".", "2", ".", "3", "+", "b", "u", "i", "l", "d", "5">>, \* '1.2.3+build5'
     <<"~", "=", "1", ".", "4", ".", "2">>,                  \* '~=1.4.2'
     <<"^", "1", ".", "2", ".", "3">>,                       \* '^1.2.3'
     <<"v", "1", ".", "2", ".", "3", "-", "r", "c", "1">>,   \* 'v1.2.3-rc1'
     <<"m", "a", "i", "n">>,                                 \* 'main'
     <<"H", "E", "A", "D">>,                                 \* 'HEAD'
     <<"1", ".", "2">>,                                      \* '1.2'
     <<>>                                                    \* ''
    }

Strategies == {"exact", "lowerbound", "none"}

InitSbom ==
    /\ pc = "input"
    /\ tool = "sbom"
    /\ sbom \in [pkg : [versionInfo : VersionInfos,
                        downloadLocation : DownloadLocations,
                        filesAnalyzed : BOOLEAN,
                        purl : BOOLEAN],
                 assume_version : Strategies,
                 include_unversioned : BOOLEAN,
                 max_vulns_per_pkg : {1, 50},
                 response : SeqsUpTo({Str("OSV-1"), Str("OSV-2"), None}, MaxOsvIds),
                 fetch_vuln_details : {FALSE},
                 assumed_version : {<<>>}, has_exact : {FALSE}, hygiene_points : {0},
                 hygiene_reasons : {<<>>}, do_osv : {FALSE}, vuln_ids : {<<>>},
                 vulns : {<<>>}, vuln_points_total : {0}, risk_points_total : {0}]
    /\ IdleScore
    /\ IdleGate
    /\ shapes = <<>>
    /\ clock = 0
    /\ runs = <<>>
    /\ wts = <<>>
    /\ http = <<>>

NextSbom == SbomBuildFinding \/ SbomQueryOsv

SpecSbom == InitSbom /\ [][NextSbom]_vars

(* One dependency on every combination of the hygiene rules, with and
   without the detail fetches *)

MaxFindingIds == 2

InitFinding ==
    /\ pc = "input"
    /\ tool = "sbom"
    /\ sbom \in [pkg : [versionInfo : {<<"2", ".", "3", "1", ".", "0">>,
                                       <<">", "=", "1", ".", "2", ".", "3">>,
                                       <<"m", "a", "i", "n">>, <<"H", "E", "A", "D">>, <<>>},
                        downloadLocation : DownloadLocations,
                        filesAnalyzed : BOOLEAN,
                        purl : {TRUE}],
                 assume_version : {"exact", "lowerbound"},
                 include_unversioned : BOOLEAN,
                 max_vulns_per_pkg : {1, 50},
                 response : SeqsUpTo({Str("OSV-1"), Str("OSV-2")}, MaxFindingIds),
                 fetch_vuln_details : BOOLEAN,
                 assumed_version : {<<>>}, has_exact : {FALSE}, hygiene_points : {0},
                 hygiene_reasons : {<<>>}, do_osv : {FALSE}, vuln_ids : {<<>>},
                 vulns : {<<>>}, vuln_points_total : {0}, risk_points_total : {0}]
    /\ IdleScore
    /\ IdleGate
    /\ shapes = <<>>
    /\ clock = 0
    /\ runs = <<>>
    /\ wts = <<>>
    /\ http = <<>>

SpecFinding == InitFinding /\ [][NextSbom]_vars

-----------------------------------------------------------------------------
(* sbom_supply_chain_risk.py: the dependencies of one SBOM as a batch *)

\* do_osv of the build loop
DoOsv(pkg, assumed, include_unversioned) ==
    pkg.purl /\ (assumed # <<>> \/ include_unversioned)

\* the PackageFinding the build loop appends for one dependency
BuildFinding(dep_id, pkg, strategy) ==
    LET assumed == guess_version_from_versioninfo(pkg.versionInfo, strategy)
        has_exact == HasExact(pkg.versionInfo, assumed)
    IN [spdx_id |-> dep_id,
        purl |-> pkg.purl,
        version_info |-> pkg.versionInfo,
        assumed_version |-> assumed,
        hygiene_points |-> base_hygiene_risk(pkg, has_exact),
        hygiene_reasons |-> hygiene_reasons(pkg, has_exact),
        vuln_ids |-> <<>>,
        vulns |-> <<>>,
        vuln_points_total |-> 0,
        risk_points_total |-> base_hygiene_risk(pkg, has_exact)]

\* osv_query_meta: the ids of the dependencies a query is submitted for, in
\* the order of the dependencies
RECURSIVE QueryMeta(_, _)
QueryMeta(fs, include_unversioned) ==
    IF fs = <<>> THEN <<>>
    ELSE (IF fs[1].purl /\ (fs[1].assumed_version # <<>> \/ include_unversioned)
          THEN <<fs[1].spdx_id>> ELSE <<>>)
         \o QueryMeta(Tail(fs), include_unversioned)

\* osv_results_by_spdx.get(dep_id, []) after the zip loop: the loop assigns
\* osv_results_by_spdx[dep_id] for each (meta, result) pair in turn, so the
\* last pair of a dep_id stays
ResultsBySpdx(meta, res, dep_id) ==
    LET ks == {k \in 1..Min(Len(meta), Len(res)) : meta[k] = dep_id}
    IN IF ks = {} THEN <<>>
       ELSE StringIds(res[CHOOSE k \in ks : \A j \in ks : j <= k])

\* the scoring loop on one finding; fetched[id] is the document the detail
\* fetch of id returns
ScoreFinding(f, ids, fetch_vuln_details, fetched) ==
    LET vdocs == IF fetch_vuln_details /\ ids # <<>>
                 THEN [k \in 1..Len(ids) |-> fetched[ids[k]]] ELSE <<>>
        pts == VulnPointsTotal(fetch_vuln_details, ids, vdocs)
    IN [f EXCEPT !.vuln_ids = ids,
                 !.vulns = vdocs,
                 !.vuln_points_total = pts,
                 !.risk_points_total = f.hygiene_points + pts]

\* compute_risk, "Build findings + OSV querybatch payload"
BatchBuild ==
    /\ pc = "input"
    /\ tool = "sbom_batch"
    /\ LET fs == [i \in 1..Len(sbom.dep_ids) |->
                    BuildFinding(sbom.dep_ids[i], sbom.pkg_index[sbom.dep_ids[i]],
                                 sbom.assume_version)]
       IN sbom' = [sbom EXCEPT
                      !.findings = fs,
                      !.osv_query_meta = QueryMeta(fs, sbom.include_unversioned)]
    /\ pc' = "built"
    /\ UNCHANGED <<tool, scoreVars, gateVars, shapes, clock, runs, wts, http>>

OsvIds == {"OSV-1", "OSV-2"}

\* the "vulns" of one entry of a querybatch answer
BatchEntries == {<<>>, <<Str("OSV-1")>>, <<Str("OSV-2")>>}

BatchDocs == {VulnDoc(TRUE, None, ""), VulnDoc(FALSE, None, "HIGH")}

\* compute_risk from "Query OSV in bulk" to the report.  osv_querybatch is
\* called when there is a query; it returns an answer with one entry per
\* query, or raises (requests.post, raise_for_status, resp.json), and
\* nothing in compute_risk or main catches that.
BatchQuery ==
    /\ pc = "built"
    /\ tool = "sbom_batch"
    /\ \/ /\ sbom.osv_query_meta # <<>>
          /\ sbom' = [sbom EXCEPT !.batch_failed = TRUE]
          /\ pc' = "raised"
       \/ \E res \in [1..Len(sbom.osv_query_meta) -> BatchEntries],
             fetched \in [OsvIds -> BatchDocs] :
             /\ sbom' = [sbom EXCEPT
                   !.results = res,
                   !.findings =
                       [i \in 1..Len(sbom.findings) |->
                          LET all == ResultsBySpdx(sbom.osv_query_meta, res,
                                                   sbom.findings[i].spdx_id)
                          IN ScoreFinding(sbom.findings[i],
                                SubSeq(all, 1, Min(Len(all), sbom.max_vulns_per_pkg)),
                                sbom.fetch_vuln_details, fetched)]]
             /\ pc' = "reported"
    /\ UNCHANGED <<tool, scoreVars, gateVars, shapes, clock, runs, wts, http>>

(* Inputs of the batch runs *)

MaxDeps == 2

SpdxIds == {"SPDXRef-A", "SPDXRef-B"}

BatchPkgs ==
    [versionInfo : {<<"2", ".", "3", "1", ".", "0">>, <<>>},
     downloadLocation : {"https://host/pkg.tgz"},
     filesAnalyzed : {TRUE},
     purl : BOOLEAN]

InitBatch ==
    /\ pc = "input"
    /\ tool = "sbom_batch"
    /\ sbom \in [dep_ids : SeqsUpTo(SpdxIds, MaxDeps) \ {<<>>},
                 pkg_index : [SpdxIds -> BatchPkgs],
                 assume_version : {"lowerbound", "none"},
                 include_unversioned : BOOLEAN,
                 fetch_vuln_details : BOOLEAN,
                 max_vulns_per_pkg : {1, 50},
                 findings : {<<>>}, osv_query_meta : {<<>>}, results : {<<>>},
                 batch_failed : {FALSE}]
    /\ IdleScore
    /\ IdleGate
    /\ shapes = <<>>
    /\ clock = 0
    /\ runs = <<>>
    /\ wts = <<>>
    /\ http = <<>>

NextBatch == BatchBuild \/ BatchQuery

SpecBatch == InitBatch /\ [][NextBatch]_vars

-----------------------------------------------------------------------------
(* The OSV lookup of nuget-audit.py, conda_forge_audit.py and pypi_audit.py *)

\* What the HTTP helper hands back for the OSV query: ok is FALSE when the
\* request failed (the helper returns None); otherwise the body is a JSON
\* object, without any key ({} is OSV's answer when it knows no
\* vulnerability) or with the "vulns" list.
OsvFailed == [ok |-> FALSE, keys |-> FALSE, vulns |-> <<>>]

OsvAnswer(keys, vs) == [ok |-> TRUE, keys |-> keys, vulns |-> vs]

\* query_osv_vulns of nuget-audit.py: data = _post(...) or {};
\* vulns = data.get("vulns") or []
query_osv_vulns(resp) ==
    LET vs == IF resp.ok THEN resp.vulns ELSE <<>>
    IN [i \in 1..Len(vs) |-> Normalize(vs[i])]

\* _query of conda's fetch_osv_vulnerabilities: None unless the status is 200
CondaQuery(resp) == IF resp.ok THEN fetch_osv_vulnerabilities(resp.vulns) ELSE None

\* fetch_osv_vulnerabilities of conda on the answers of the package query
\* and of the repository query
CondaLookupResult(by_package, by_repo) ==
    IF CondaQuery(by_package) # None THEN CondaQuery(by_package)
    ELSE IF CondaQuery(by_repo) # None THEN CondaQuery(by_repo)
    ELSE NoOsvResult

\* osv_vulnerability_count of pypi_audit.py: `if not data: return None`
osv_vulnerability_count(resp) ==
    IF ~resp.ok \/ ~resp.keys THEN None ELSE Num(Len(resp.vulns))

\* how a lookup ended: it failed, or it succeeded with or without findings
LookupKind(resp) ==
    IF ~resp.ok THEN "failed" ELSE IF resp.vulns = <<>> THEN "zero" ELSE "some"

MaxLookups == 2

\* the lookup of nuget-audit.py and the vulnerabilities score made of it
NugetLookup ==
    /\ pc = "input"
    /\ tool = "nuget_lookup"
    /\ Len(runs) < MaxLookups
    /\ \E resp \in rawVulns :
          runs' = Append(runs,
                         [kind |-> LookupKind(resp),
                          data |-> query_osv_vulns(resp),
                          penalty |-> 10000 - VulnerabilityScore(query_osv_vulns(resp))])
    /\ UNCHANGED <<pc, tool, scoreVars, gateVars, shapes, clock, wts, sbom, http>>

\* the lookup of conda_forge_audit.py and the vulnerabilities score
CondaLookup ==
    /\ pc = "input"
    /\ tool = "conda_lookup"
    /\ Len(runs) < MaxLookups
    /\ \E by_package \in rawVulns, by_repo \in rawVulns :
          /\ by_package.ok => by_repo = by_package
          /\ LET osv == CondaLookupResult(by_package, by_repo)
             IN runs' = Append(runs,
                         [kind |-> IF by_package.ok THEN LookupKind(by_package)
                                   ELSE LookupKind(by_repo),
                          data |-> osv,
                          penalty |-> 10000 - score_vulnerabilities_osv(osv.count,
                                                                        osv.severities)])
    /\ UNCHANGED <<pc, tool, scoreVars, gateVars, shapes, clock, wts, sbom, http>>

\* the lookup of pypi_audit.py (--osv) and the points of its metric
PypiLookup ==
    /\ pc = "input"
    /\ tool = "pypi_lookup"
    /\ Len(runs) < MaxLookups
    /\ \E resp \in rawVulns :
          LET osv_count == osv_vulnerability_count(resp)
          IN runs' = Append(runs,
                         [kind |-> LookupKind(resp),
                          data |-> osv_count,
                          penalty |-> PypiOsvWeight - PypiOsvScore(TRUE, osv_count)])
    /\ UNCHANGED <<pc, tool, scoreVars, gateVars, shapes, clock, wts, sbom, http>>

\* the answers the OSV service can give
OsvResponses ==
    {OsvFailed, OsvAnswer(FALSE, <<>>), OsvAnswer(TRUE, <<>>),
     OsvAnswer(TRUE, <<Scored("OSV-1", 9000)>>), OsvAnswer(TRUE, <<Bare("OSV-5")>>),
     OsvAnswer(TRUE, <<Scored("OSV-2", 7000)>>),
     OsvAnswer(TRUE, <<Scored("OSV-1", 9000), Bare("OSV-5")>>)}

InitLookup ==
    /\ pc = "input"
    /\ tool \in {"nuget_lookup", "conda_lookup", "pypi_lookup"}
    /\ rawVulns = OsvResponses
    /\ vulns = <<>>
    /\ info = EmptyInfo
    /\ gh = EmptyGh
    /\ historyCount = None
    /\ historyWeight = Num(0)
    /\ tieUp = FALSE
    /\ scores = <<>>
    /\ overall = None
    /\ rating = ""
    /\ condaOsv = None
    /\ condaVuln = None
    /\ IdleGate
    /\ shapes = <<>>
    /\ clock = 0
    /\ runs = <<>>
    /\ wts = <<>>
    /\ http = <<>>
    /\ sbom = <<>>

NextLookup == NugetLookup \/ CondaLookup \/ PypiLookup

SpecLookup == InitLookup /\ [][NextLookup]_vars

-----------------------------------------------------------------------------
(* dockeraudit.py: evaluate_image *)

\* The parts of the trust score are kept in 1/100000 of a point, so that
\* 0.2 per star (20000), 0.02 per 1000 pulls (2 per pull) and 0.2 per tag
\* are whole numbers.
DockerPoint == 100000

\* round(score, 2), in hundredths of a point; a tie goes to the even side
RoundCents(u) ==
    LET q == u \div 1000
        r == u % 1000
    IN IF r > 500 \/ (r = 500 /\ q % 2 = 1) THEN q + 1 ELSE q

\* score of evaluate_image, in 1/100000 of a point.  last_updated is the age
\* of the image in days, None when the timestamp is missing or unparseable.
DockerScore(image_info, org_info, user_type) ==
    LET star_score == Min(image_info.star_count * 20000, 20 * DockerPoint)
        update_score == IF image_info.last_updated = None THEN 0
                        ELSE IF image_info.last_updated[2] <= 30 THEN 20 * DockerPoint
                        ELSE IF image_info.last_updated[2] <= 60 THEN 15 * DockerPoint
                        ELSE IF image_info.last_updated[2] <= 90 THEN 10 * DockerPoint
                        ELSE 0
        pull_score == Min(image_info.pull_count * 2, 20 * DockerPoint)
        tag_score == Min(image_info.tag_count * 20000, 10 * DockerPoint)
        active_score == IF org_info.present /\ org_info.is_active THEN 10 * DockerPoint ELSE 0
        user_score == IF user_type = "organization" THEN 10 * DockerPoint
                      ELSE IF user_type = "individual" THEN 5 * DockerPoint ELSE 0
        signed_score == IF image_info.is_signed \/ image_info.is_verified
                        THEN 10 * DockerPoint ELSE 0
        badge_score == IF org_info.present /\ org_info.badge THEN 15 * DockerPoint ELSE 0
    IN star_score + update_score + pull_score + tag_score + active_score
       + user_score + signed_score + badge_score

\* trust_level of evaluate_image for a percentage in hundredths
TrustLevel(percentage) ==
    IF percentage >= 9000 THEN "Critical"
    ELSE IF percentage >= 7500 THEN "High"
    ELSE IF percentage >= 5000 THEN "Medium"
    ELSE IF percentage >= 2500 THEN "Low"
    ELSE "Very Low"

\* evaluate_image: info is image_info; gh is org_info with the user type
DockerEvaluate ==
    /\ pc = "input"
    /\ tool = "docker_score"
    /\ LET percentage == RoundCents(DockerScore(info, gh, gh.user_type))
       IN scores' = [percentage |-> percentage, trust_level |-> TrustLevel(percentage)]
    /\ pc' = "scored"
    /\ UNCHANGED <<tool, rawVulns, vulns, info, gh, historyCount, historyWeight, tieUp,
                   overall, rating, condaOsv, condaVuln, gateVars, extVars>>

(* Inputs of evaluate_image *)

DockerImages ==
    [star_count : {0, 3, 100, 5000},
     last_updated : {None, Num(10), Num(45), Num(75), Num(400)},
     pull_count : {0, 1234, 1000000, 50000000},
     tag_count : {0, 7, 50, 300},
     is_signed : BOOLEAN,
     is_verified : {FALSE}]

\* org_info is None, or carries is_active and a badge or none
DockerOrgs ==
    {o \in [present : BOOLEAN, is_active : BOOLEAN, badge : BOOLEAN,
            user_type : {"organization", "individual", "unknown"}] :
        ~o.present => (~o.is_active /\ ~o.badge)}

InitDocker ==
    /\ pc = "input"
    /\ tool = "docker_score"
    /\ info \in DockerImages
    /\ gh \in DockerOrgs
    /\ rawVulns = <<>>
    /\ vulns = <<>>
    /\ historyCount = None
    /\ historyWeight = Num(0)
    /\ tieUp = FALSE
    /\ scores = <<>>
    /\ overall = None
    /\ rating = ""
    /\ condaOsv = None
    /\ condaVuln = None
    /\ IdleGate
    /\ ExtInit

NextDocker == DockerEvaluate

SpecDocker == InitDocker /\ [][NextDocker]_vars

-----------------------------------------------------------------------------
(* nuget-audit.py: the HTTP helpers _get and _post *)

\* for attempt in range(3)
MaxAttempts == 3

\* What one HTTP attempt meets: SESSION.get / SESSION.post raises (a
\* transport exception), or a response arrives with a status and a body that
\* r.json() parses or not.
Raised == [exc |-> TRUE, status |-> 0, parses |-> FALSE]

Response(status, parses) == [exc |-> FALSE, status |-> status, parses |-> parses]

\* the (429, 503) branch taken before raise_for_status: sleep and continue
ThrottleRetried(status) == status \in {429, 503}

\* an HTTPError handler that retries every error status
HttpErrorRetriedAlways(status) == TRUE

\* the statuses the HTTPError handler retries
HttpErrorRetried(status) == status \in {429, 500, 502, 503, 504}

\* raise_for_status raises for a 4xx or 5xx status
RaisesForStatus(status) == status >= 400 /\ status < 600

\* What the loop body does with the outcome of the attempt numbered
\* `attempt` (from 0): "continue", or "json" / "none" for what it returns.
LoopBody(helper, attempt, o) ==
    LET onException == IF attempt < 2 THEN "continue" ELSE "none"
    IN IF o.exc THEN onException
       ELSE IF ThrottleRetried(o.status) THEN "continue"
       ELSE IF RaisesForStatus(o.status)
            THEN (IF HttpErrorRetried(o.status) /\ attempt < 2 THEN "continue" ELSE "none")
       ELSE IF o.parses THEN "json"
       ELSE IF helper = "_get" THEN "none"    \* the inner try of _get
       ELSE onException                        \* r.json() raises inside the try of _post

\* the outcomes an attempt can meet
HttpOutcomes ==
    {Raised} \cup {Response(200, TRUE), Response(200, FALSE)}
    \cup {Response(st, FALSE) : st \in {404, 429, 500, 502, 503, 504}}

\* one attempt of the call; after the last iteration the loop is left and the
\* helper returns None
HttpAttempt ==
    /\ tool = "nuget_http"
    /\ http.state = "running"
    /\ Len(http.log) < MaxAttempts
    /\ \E o \in HttpOutcomes :
          LET did == LoopBody(http.helper, Len(http.log), o)
              last == Len(http.log) + 1 = MaxAttempts
          IN http' = [http EXCEPT
                         !.log = Append(@, o),
                         !.state = IF did = "continue" /\ ~last THEN "running" ELSE "returned",
                         !.result = IF did = "json" THEN "json" ELSE "none"]
    /\ UNCHANGED <<pc, tool, scoreVars, gateVars, shapes, clock, runs, wts, sbom>>

InitHttp ==
    /\ pc = "input"
    /\ tool = "nuget_http"
    /\ http \in [helper : {"_get", "_post"},
                 log : {<<>>}, state : {"running"}, result : {"none"}]
    /\ IdleScore
    /\ IdleGate
    /\ shapes = <<>>
    /\ clock = 0
    /\ runs = <<>>
    /\ wts = <<>>
    /\ sbom = <<>>

NextHttp == HttpAttempt

\* the call runs on: nothing but the call itself delays an attempt
SpecHttp == InitHttp /\ [][NextHttp]_vars /\ WF_vars(NextHttp)

-----------------------------------------------------------------------------
(* The --fail-below gates and the exit codes *)

\* What auditing one requested package yields: the overall score the scorer
\* computes from the fetched data, a package the registry does not know, or a
\* request that raises.
Score(x) == <<"score", x>>
NotFound == <<"notfound">>
Raises == <<"raise">>

LockfileCap == 50
ReportCap == 10

NugetUsageExit == 2
NugetGateExit == 3
CondaGateExit == 2
PypiErrorExit == 1
PypiGateExit == 2
DockerFetchExit == 1
DockerGateExit == 1
GithubRateExit == 1
GithubGateExit == 1
\* the status of a Python process that ends with an uncaught exception
CrashExit == 1

InPercent(t) == 0 <= t[2] /\ t[2] <= 10000

\* the results whose overall is a number below t
RECURSIVE Below(_, _)
Below(rs, t) ==
    IF rs = <<>> THEN <<>>
    ELSE (IF IsNum(rs[1].overall) /\ rs[1].overall[2] < t THEN <<rs[1]>> ELSE <<>>)
         \o Below(Tail(rs), t)

Listed(rs) == [i \in 1..Len(rs) |-> <<rs[i].idx, rs[i].overall[2]>>]

Finish(code, ran, rep, cnt, more) ==
    /\ pc' = "done"
    /\ exitCode' = Num(code)
    /\ gateRan' = ran
    /\ report' = rep
    /\ reportCount' = cnt
    /\ reportMore' = more

\* NuGet scores whatever the lookups return: a package it cannot find gets
\* compute_risk of empty metadata, no findings and no GitHub stats
NugetOverallOf(item) ==
    IF item[1] = "score" THEN item[2]
    ELSE compute_risk(EmptyInfo, <<>>, EmptyGh, None, Num(0), FALSE).overall[2]

\* audit_lockfile: the early validation of --fail-below
NugetLockfileValidate ==
    /\ pc = "start"
    /\ tool = "nuget_lockfile"
    /\ IF thr # None /\ (~InPercent(thr) \/ osvOnly)
       THEN Finish(NugetUsageExit, FALSE, <<>>, None, FALSE)
       ELSE /\ pc' = "audit"
            /\ UNCHANGED <<exitCode, gateRan, report, reportCount, reportMore, http>>
    /\ UNCHANGED <<tool, scoreVars, extVars, items, thr, failAbove, osvOnly, jsonOut, results>>

\* audit_lockfile: the loop over items[:50]
NugetLockfileAudit ==
    /\ pc = "audit"
    /\ tool = "nuget_lockfile"
    /\ results' = [i \in 1..Min(Len(items), LockfileCap) |->
                      [idx |-> i,
                       overall |-> IF osvOnly THEN None ELSE Num(NugetOverallOf(items[i]))]]
    /\ pc' = "gate"
    /\ UNCHANGED <<tool, scoreVars, extVars, items, thr, failAbove, osvOnly, jsonOut,
                   gateRan, report, reportCount, reportMore, exitCode>>

\* audit_lockfile: "Enforce --fail-below after outputs"
NugetLockfileGate ==
    /\ pc = "gate"
    /\ tool = "nuget_lockfile"
    /\ IF thr = None THEN Finish(0, FALSE, <<>>, None, FALSE)
       ELSE LET below == Below(results, thr[2])
            IN IF below # <<>>
               THEN Finish(NugetGateExit, TRUE,
                           Listed(SubSeq(below, 1, Min(Len(below), ReportCap))),
                           Num(Len(below)), Len(below) > ReportCap)
               ELSE Finish(0, TRUE, <<>>, None, FALSE)
    /\ UNCHANGED <<tool, scoreVars, extVars, items, thr, failAbove, osvOnly, jsonOut, results>>

\* audit_package of nuget-audit.py
NugetPackage ==
    /\ pc = "start"
    /\ tool = "nuget_package"
    /\ IF osvOnly
       THEN /\ results' = <<>>
            /\ IF thr # None THEN Finish(NugetUsageExit, FALSE, <<>>, None, FALSE)
               ELSE Finish(0, FALSE, <<>>, None, FALSE)
       ELSE LET r == [idx |-> 1, overall |-> Num(NugetOverallOf(items[1]))]
            IN /\ results' = <<r>>
               /\ IF thr = None THEN Finish(0, FALSE, <<>>, None, FALSE)
                  ELSE IF ~InPercent(thr) THEN Finish(NugetUsageExit, FALSE, <<>>, None, FALSE)
                  ELSE IF r.overall[2] < thr[2]
                       THEN Finish(NugetGateExit, TRUE, Listed(<<r>>), Num(1), FALSE)
                       ELSE Finish(0, TRUE, <<>>, None, FALSE)
    /\ UNCHANGED <<tool, scoreVars, extVars, items, thr, failAbove, osvOnly, jsonOut>>

\* the index of the first request that raises, 0 when none does
FirstRaise(its) ==
    IF \E i \in 1..Len(its) : its[i] = Raises
    THEN CHOOSE i \in 1..Len(its) : its[i] = Raises /\ \A j \in 1..(i - 1) : its[j] # Raises
    ELSE 0

\* main of conda_forge_audit.py: the loop over names.  audit_package returns
\* an error record without scores for an unknown package; an exception of
\* SESSION.get is not caught.
CondaAudit ==
    /\ pc = "start"
    /\ tool = "conda"
    /\ LET f == FirstRaise(items)
           n == IF f = 0 THEN Len(items) ELSE f - 1
           rs == [i \in 1..n |->
                     [idx |-> i,
                      overall |-> IF items[i][1] = "score" THEN Num(items[i][2]) ELSE None]]
       IN /\ results' = rs
          /\ IF f # 0 THEN Finish(CrashExit, FALSE, <<>>, None, FALSE)
             ELSE /\ pc' = "gate"
                  /\ UNCHANGED <<exitCode, gateRan, report, reportCount, reportMore, http>>
    /\ UNCHANGED <<tool, scoreVars, extVars, items, thr, failAbove, osvOnly, jsonOut>>

\* main of conda_forge_audit.py: the output, then "Exit code and message if
\* any fail-below breached"
CondaGate ==
    /\ pc = "gate"
    /\ tool = "conda"
    /\ IF jsonOut /\ results = <<>> THEN Finish(CrashExit, FALSE, <<>>, None, FALSE)
       ELSE IF thr = None THEN Finish(0, FALSE, <<>>, None, FALSE)
       ELSE LET failed == Below(results, thr[2])
            IN IF failed # <<>>
               THEN Finish(CondaGateExit, TRUE, Listed(failed), Num(Len(failed)), FALSE)
               ELSE Finish(0, TRUE, <<>>, None, FALSE)
    /\ UNCHANGED <<tool, scoreVars, extVars, items, thr, failAbove, osvOnly, jsonOut, results>>

\* main of pypi_audit.py: no packages, or a threshold outside 0..100
PypiValidate ==
    /\ pc = "start"
    /\ tool = "pypi"
    /\ IF items = <<>>
          \/ (failAbove # None /\ ~InPercent(failAbove))
          \/ (thr # None /\ ~InPercent(thr))
       THEN Finish(PypiErrorExit, FALSE, <<>>, None, FALSE)
       ELSE /\ pc' = "audit"
            /\ UNCHANGED <<exitCode, gateRan, report, reportCount, reportMore, http>>
    /\ UNCHANGED <<tool, scoreVars, extVars, items, thr, failAbove, osvOnly, jsonOut, results>>

\* main of pypi_audit.py: the loop over to_audit; overall is the health percent
PypiAudit ==
    /\ pc = "audit"
    /\ tool = "pypi"
    /\ results' = [i \in 1..Len(items) |->
                      [idx |-> i,
                       overall |-> IF items[i][1] = "score" THEN Num(items[i][2]) ELSE None]]
    /\ pc' = "gate"
    /\ UNCHANGED <<tool, scoreVars, extVars, items, thr, failAbove, osvOnly, jsonOut,
                   gateRan, report, reportCount, reportMore, exitCode>>

\* main of pypi_audit.py: "Apply gates", the report, "Exit codes"
PypiGate ==
    /\ pc = "gate"
    /\ tool = "pypi"
    /\ LET had_operational_error == \E i \in 1..Len(results) : results[i].overall = None
           applies == ~had_operational_error /\ (failAbove # None \/ thr # None)
           gate_failed ==
               /\ ~had_operational_error
               /\ IF failAbove # None
                  THEN \E i \in 1..Len(results) :
                          10000 - results[i].overall[2] > failAbove[2]
                  ELSE /\ thr # None
                       /\ \E i \in 1..Len(results) : results[i].overall[2] < thr[2]
       IN IF had_operational_error THEN Finish(PypiErrorExit, FALSE, <<>>, None, FALSE)
          ELSE IF gate_failed THEN Finish(PypiGateExit, TRUE, <<>>, None, FALSE)
          ELSE Finish(0, applies, <<>>, None, FALSE)
    /\ UNCHANGED <<tool, scoreVars, extVars, items, thr, failAbove, osvOnly, jsonOut, results>>

\* main of dockeraudit.py
DockerMain ==
    /\ pc = "start"
    /\ tool = "docker"
    /\ IF items[1][1] # "score"
       THEN /\ results' = <<>>
            /\ Finish(DockerFetchExit, FALSE, <<>>, None, FALSE)
       ELSE LET r == [idx |-> 1, overall |-> Num(items[1][2])]
            IN /\ results' = <<r>>
               /\ IF thr = None THEN Finish(0, FALSE, <<>>, None, FALSE)
                  ELSE IF r.overall[2] < thr[2]
                       THEN Finish(DockerGateExit, TRUE, Listed(<<r>>), Num(1), FALSE)
                       ELSE Finish(0, TRUE, <<>>, None, FALSE)
    /\ UNCHANGED <<tool, scoreVars, extVars, items, thr, failAbove, osvOnly, jsonOut>>

\* audit_repository of githubaudit.py; check_rate_limit exits on a 403
GithubAudit ==
    /\ pc = "start"
    /\ tool = "github"
    /\ IF items[1][1] # "score"
       THEN /\ results' = <<>>
            /\ Finish(GithubRateExit, FALSE, <<>>, None, FALSE)
       ELSE LET r == [idx |-> 1, overall |-> Num(items[1][2])]
            IN /\ results' = <<r>>
               /\ IF thr = None THEN Finish(0, FALSE, <<>>, None, FALSE)
                  ELSE IF r.overall[2] < thr[2]
                       THEN Finish(GithubGateExit, TRUE, Listed(<<r>>), Num(1), FALSE)
                       ELSE Finish(0, TRUE, <<>>, None, FALSE)
    /\ UNCHANGED <<tool, scoreVars, extVars, items, thr, failAbove, osvOnly, jsonOut>>

(* Inputs of the gated runs *)

MaxBatch == 3
MaxItems == 52
MaxLow == 11

GateScores == {5500, 7000, 8500}

Thresholds == {None, Num(7000), Num(15000), Num(-100)}

\* a lockfile of n packages scoring 85, but for k of them from position p on
\* that score 55
Block(n, p, k) == [i \in 1..n |-> IF p <= i /\ i < p + k THEN Score(5500) ELSE Score(8500)]

LongLockfiles ==
    UNION {{Block(n, p, k) : p \in 1..n, k \in {1, MaxLow}} : n \in 0..MaxItems}

Scored1 == {Score(x) : x \in GateScores}

GateInputs(t) ==
    CASE t = "nuget_lockfile" ->
           [items : SeqsUpTo(Scored1 \cup {NotFound}, MaxBatch - 1) \cup LongLockfiles,
            thr : Thresholds, failAbove : {None}, osvOnly : BOOLEAN, jsonOut : {FALSE}]
      [] t = "nuget_package" ->
           [items : {<<x>> : x \in Scored1 \cup {NotFound}},
            thr : Thresholds, failAbove : {None}, osvOnly : BOOLEAN, jsonOut : {FALSE}]
      [] t = "conda" ->
           [items : SeqsUpTo(Scored1 \cup {NotFound, Raises}, MaxBatch),
            thr : Thresholds, failAbove : {None}, osvOnly : {FALSE}, jsonOut : BOOLEAN]
      [] t = "pypi" ->
           [items : SeqsUpTo(Scored1 \cup {NotFound}, MaxBatch),
            thr : Thresholds, failAbove : {None, Num(3000), Num(15000)},
            osvOnly : {FALSE}, jsonOut : {FALSE}]
      [] t = "docker" ->
           [items : {<<x>> : x \in Scored1 \cup {NotFound}},
            thr : Thresholds, failAbove : {None}, osvOnly : {FALSE}, jsonOut : {FALSE}]
      [] t = "github" ->
           [items : {<<x>> : x \in Scored1 \cup {Raises}},
            thr : Thresholds, failAbove : {None}, osvOnly : {FALSE}, jsonOut : {FALSE}]

Tools == {"nuget_lockfile", "nuget_package", "conda", "pypi", "docker", "github"}

Init ==
    /\ pc = "start"
    /\ tool \in Tools
    /\ \E in \in GateInputs(tool) :
          /\ items = in.items
          /\ thr = in.thr
          /\ failAbove = in.failAbove
          /\ osvOnly = in.osvOnly
          /\ jsonOut = in.jsonOut
    /\ results = <<>>
    /\ gateRan = FALSE
    /\ report = <<>>
    /\ reportCount = None
    /\ reportMore = FALSE
    /\ exitCode = None
    /\ rawVulns = <<>>
    /\ vulns = <<>>
    /\ info = EmptyInfo
    /\ gh = EmptyGh
    /\ historyCount = None
    /\ historyWeight = Num(0)
    /\ tieUp = FALSE
    /\ scores = <<>>
    /\ overall = None
    /\ rating = ""
    /\ condaOsv = None
    /\ condaVuln = None
    /\ ExtInit

Next ==
    \/ NugetLockfileValidate
    \/ NugetLockfileAudit
    \/ NugetLockfileGate
    \/ NugetPackage
    \/ CondaAudit
    \/ CondaGate
    \/ PypiValidate
    \/ PypiAudit
    \/ PypiGate
    \/ DockerMain
    \/ GithubAudit

Spec == Init /\ [][Next]_vars

-----------------------------------------------------------------------------
(* Claims *)

InRange(x) == 0 <= x /\ x <= 10000

\* C1: whatever the findings, timestamps, counts, licence, history_count and
\* history_weight, every entry of the scores map that the NuGet compute_risk
\* returns and its overall score lie in [0,100].
C1_ScoresInRange ==
    (pc = "scored" /\ tool = "nuget") =>
        /\ \A k \in DOMAIN scores : InRange(scores[k])
        /\ IsNum(overall)
        /\ InRange(overall[2])

SeverityRank(label) ==
    CASE label = "CRITICAL" -> 3
      [] label = "HIGH" -> 2
      [] label = "MEDIUM" -> 1
      [] OTHER -> 0

RECURSIVE WorstRank(_)
WorstRank(vs) ==
    IF vs = <<>> THEN 0 ELSE Max(SeverityRank(vs[1].sev_label), WorstRank(Tail(vs)))

\* C7: the vulnerabilities sub-score is 100 for no findings and, for n >= 1
\* findings, 100 - min(70, 15 n) - p with p = 20, 12, 6, 0 for a worst severity
\* label of CRITICAL, HIGH, MEDIUM, LOW or UNKNOWN; it is never below 10.
C7_VulnerabilityFormula ==
    (pc = "scored" /\ tool \in {"nuget", "csharp"}) =>
        LET n == Len(vulns)
            r == WorstRank(vulns)
            p == CASE r = 3 -> 2000 [] r = 2 -> 1200 [] r = 1 -> 600 [] OTHER -> 0
        IN /\ scores["vulnerabilities"] =
                  (IF n = 0 THEN 10000 ELSE 10000 - Min(7000, 1500 * n) - p)
           /\ scores["vulnerabilities"] >= 1000

\* C8: with the other signals equal, a package with at least one finding has a
\* strictly lower vulnerabilities sub-score than with none, whatever the
\* severity information of the findings, and no higher an overall score.
C8_FindingsLowerTheScore ==
    (pc = "scored" /\ Len(rawVulns) >= 1) =>
        /\ tool = "nuget" =>
              LET clean == compute_risk(info, <<>>, gh, historyCount, historyWeight, tieUp)
              IN /\ scores["vulnerabilities"] < clean.scores["vulnerabilities"]
                 /\ overall[2] <= clean.overall[2]
        /\ tool = "csharp" =>
              LET clean == cs_compute_risk(info, <<>>, gh, tieUp)
              IN /\ scores["vulnerabilities"] < clean.scores["vulnerabilities"]
                 /\ overall[2] <= clean.overall[2]
        /\ tool = "conda" =>
              LET clean == fetch_osv_vulnerabilities(<<>>)
              IN condaVuln[2] < score_vulnerabilities_osv(clean.count, clean.severities)

LabelledBy(t, v) == IF t = "nuget" THEN _sev_label(v) ELSE cs_sev_label(v)

\* C9: for a numeric CVSS score s the label is CRITICAL exactly for s >= 9.0,
\* HIGH for 7.0 <= s < 9.0 (8.999 is HIGH), MEDIUM for 4.0 <= s < 7.0, and the
\* label never decreases as s increases.
C9_SeverityBands ==
    pc = "normalized" =>
        \A i \in 1..Len(vulns) :
            IsNum(vulns[i].max_cvss) =>
                LET s == vulns[i].max_cvss[2]
                    l == vulns[i].sev_label
                IN /\ l = "CRITICAL" <=> s >= 9000
                   /\ l = "HIGH" <=> (7000 <= s /\ s < 9000)
                   /\ l = "MEDIUM" <=> (4000 <= s /\ s < 7000)
                   /\ \A s2 \in ScoreSamples :
                         s2 >= s =>
                            SeverityRank(LabelledBy(tool, Scored("OSV-2", s2))) >= SeverityRank(l)

\* a record normalised to 8.999, labelled HIGH
C9_Witness ==
    /\ pc = "normalized"
    /\ vulns[1].max_cvss = Num(8999)
    /\ vulns[1].sev_label = "HIGH"

\* C10: a numeric score is labelled LOW only when it is strictly above 0 (and
\* below 4.0); a record whose numeric score is exactly 0 is labelled UNKNOWN.
C10_ZeroIsUnknown ==
    pc = "normalized" =>
        \A i \in 1..Len(vulns) :
            IsNum(vulns[i].max_cvss) =>
                LET s == vulns[i].max_cvss[2]
                    l == vulns[i].sev_label
                IN /\ l = "LOW" => (0 < s /\ s < 4000)
                   /\ s = 0 => l = "UNKNOWN"


(* Claims about the gates *)

\* the exit code a tool uses for "a score is below the threshold"
GateExitOf(t) ==
    CASE t \in {"nuget_lockfile", "nuget_package"} -> NugetGateExit
      [] t = "conda" -> CondaGateExit
      [] t = "pypi" -> PypiGateExit
      [] t = "docker" -> DockerGateExit
      [] t = "github" -> GithubGateExit

Gated == pc = "done" /\ thr # None /\ gateRan

\* C2: in the batch gates (NuGet lockfile, conda) the gate fails exactly when
\* some result scores strictly below the threshold, and the failure output
\* lists every result below the threshold with its score, none omitted, none
\* added.
C2_GateReport ==
    (Gated /\ tool \in {"nuget_lockfile", "conda"}) =>
        /\ (exitCode = Num(GateExitOf(tool))) <=> (Below(results, thr[2]) # <<>>)
        /\ (exitCode = Num(GateExitOf(tool))) =>
               (report = Listed(Below(results, thr[2])) /\ ~reportMore)

\* C3: a gated batch run that holds an entry without an overall score does
\* not pass: it never ends with exit code 0.
C3_UnresolvedFailsClosed ==
    (/\ pc = "done"
     /\ tool \in {"conda", "nuget_lockfile", "pypi"}
     /\ thr # None /\ InPercent(thr)
     /\ \E i \in 1..Len(results) : results[i].overall = None)
        => exitCode # Num(0)

\* C4: a NuGet lockfile run with a valid --fail-below t ends with exit code 3
\* whenever some entry of the lockfile scores below t, whatever the length of
\* the lockfile and the position of the entry.
C4_LockfileGateCoversEveryEntry ==
    (/\ pc = "done"
     /\ tool = "nuget_lockfile"
     /\ thr # None /\ InPercent(thr) /\ ~osvOnly
     /\ \E i \in 1..Len(items) : NugetOverallOf(items[i]) < thr[2])
        => exitCode = Num(NugetGateExit)

\* a requested package was not found, or its lookup raised
OpFailure == \E i \in 1..Len(items) : items[i][1] # "score"

\* C5: a run whose lookups all succeed and that is given a threshold outside
\* 0..100 computes no gate verdict and ends with a non-zero exit code that is
\* not the tool's gate-failure code.
C5_ThresholdValidated ==
    (/\ pc = "done"
     /\ items # <<>> /\ ~OpFailure
     /\ \/ (thr # None /\ ~InPercent(thr))
        \/ (failAbove # None /\ ~InPercent(failAbove)))
        => /\ ~gateRan
           /\ exitCode # Num(0)
           /\ exitCode # Num(GateExitOf(tool))

GateBreached ==
    IF tool = "pypi" /\ failAbove # None
    THEN \E i \in 1..Len(results) :
            IsNum(results[i].overall) /\ 10000 - results[i].overall[2] > failAbove[2]
    ELSE thr # None /\ Below(results, thr[2]) # <<>>

\* C6: for pypi, docker and conda, exit code 0 means every package was audited
\* and the gate passed; an operational failure ends non-zero with a code that
\* is not the gate-failure code; pypi uses 1 for the former and 2 for the
\* latter.
C6_ExitCodes ==
    (pc = "done" /\ tool \in {"pypi", "docker", "conda"}) =>
        /\ exitCode = Num(0) => (~OpFailure /\ ~GateBreached)
        /\ OpFailure => (exitCode # Num(0) /\ exitCode # Num(GateExitOf(tool)))
        /\ tool = "pypi" =>
              /\ OpFailure => exitCode = Num(1)
              /\ (~OpFailure /\ gateRan /\ GateBreached) => exitCode = Num(2)


(* Claims about textual and multiple severities *)

SeverityWords == {"CRITICAL", "HIGH", "MEDIUM", "LOW"}

RepresentativeScore(label) ==
    CASE label = "CRITICAL" -> 9500
      [] label = "HIGH" -> 8000
      [] label = "MEDIUM" -> 5500
      [] label = "LOW" -> 2500

\* the record carries no number anywhere, and a severity word as text
TextualOnly(v) ==
    /\ \A k \in 1..Len(v.severity) : ~IsNum(v.severity[k].score)
    /\ ~IsNum(v.ds.cvss)
    /\ IsStr(v.ds.severity)
    /\ Upper(v.ds.severity[2]) \in SeverityWords

\* C11: a record with no numeric score and a textual severity normalises to
\* that label, upper-cased, with the representative score 9.5/8.0/5.5/2.5,
\* and a finding list whose worst finding is CRITICAL by its text alone gets
\* the worst-severity penalty of 20.
C11_TextualSeverity ==
    (pc \in {"normalized", "scored"} /\ tool \in {"nuget", "csharp"}) =>
        /\ \A i \in 1..Len(vulns) :
              TextualOnly(rawVulns[i]) =>
                  LET word == Upper(rawVulns[i].ds.severity[2])
                  IN /\ vulns[i].sev_label = word
                     /\ vulns[i].max_cvss = Num(RepresentativeScore(word))
        /\ (/\ pc = "scored"
            /\ \E i \in 1..Len(vulns) :
                  TextualOnly(rawVulns[i]) /\ Upper(rawVulns[i].ds.severity[2]) = "CRITICAL")
              => scores["vulnerabilities"] = 10000 - Min(7000, 1500 * Len(vulns)) - 2000

CvssTypes == {"CVSS_V2", "CVSS_V3", "CVSS_V3.1", "CVSS_V4"}

\* C12: a record with numeric CVSS entries of type v2, v3, v3.1 or v4 is
\* normalised to the maximum of all of them.
C12_MaxOfAllCvss ==
    (pc = "normalized" /\ tool \in {"nuget", "csharp"}) =>
        \A i \in 1..Len(vulns) :
            LET all == TypedScores(rawVulns[i].severity, CvssTypes)
            IN all # <<>> => vulns[i].max_cvss = Num(SeqMax(all))


\* C13: normalising a response never raises, whatever the shape of the
\* severity and database_specific fields of its records; a record with
\* neither a severity list nor a database_specific object gets the label
\* UNKNOWN and no score, and every record of the response is processed.
C13_NeverRaises ==
    /\ pc # "raised"
    /\ pc = "normalized" =>
          /\ Len(vulns) = Len(rawVulns)
          /\ \A i \in 1..Len(vulns) :
                (ShapeOf(i).sev # "list" /\ ShapeOf(i).ds # "object") =>
                    (vulns[i].sev_label = "UNKNOWN" /\ vulns[i].max_cvss = None)
    /\ pc = "fetched" => condaOsv.count = Num(Len(rawVulns))


(* Claims about weights and aggregation *)

\* the weights of the map are numbers that add up to 1
SumsToOne(W) ==
    /\ W.den > 0
    /\ \A k \in DOMAIN W.w : IsNum(W.w[k])
    /\ SumOver(DOMAIN W.w, [k \in DOMAIN W.w |-> W.w[k][2]]) = W.den

\* any two weights of W stand in the ratio of the given raw weights
RatiosKept(W, raw) ==
    \A a, b \in DOMAIN raw :
        (IsNum(raw[a]) /\ IsNum(raw[b])) =>
            /\ IsNum(W.w[a]) /\ IsNum(W.w[b])
            /\ W.w[a][2] * raw[b][2] = W.w[b][2] * raw[a][2]

\* C14: the normalised weights add up to 1 whenever the weight map after the
\* override sums to a positive number, are exactly the defaults when it sums
\* to 0 or less, and keep the ratio of any two dimensions' weights.
C14_WeightsNormalised ==
    /\ (pc \in {"weighted", "scored"} /\ tool = "conda_weights") =>
          LET out == ApplyPairs(DEFAULT_WEIGHTS.w, wts.override)
              sm == SumWeights(out)
          IN IF sm = Inf \/ sm[2] > 0
             THEN SumsToOne(wts.weights) /\ RatiosKept(wts.weights, out)
             ELSE wts.weights = DEFAULT_WEIGHTS
    /\ (pc = "weighted" /\ tool = "nuget_weights") =>
          /\ SumsToOne(wts.weights)
          /\ RatiosKept(wts.weights, [k \in BaseDims |-> Num(BaseWeight(k))])

\* C15: the overall score is the weighted average over the scored dimensions
\* only: a weight whose dimension has no score (conda), or a check that was
\* skipped (the OSV metric of pypi), enters neither the sum nor the divisor.
C15_MissingDimensionExcluded ==
    /\ (/\ pc = "scored" /\ tool = "conda_weights"
        /\ \A k \in DOMAIN wts.weights.w :
              IsNum(wts.weights.w[k]) /\ wts.weights.w[k][2] >= 0) =>
          LET scored == DOMAIN wts.weights.w \cap DOMAIN wts.scores
              D == SumOver(scored, [k \in scored |-> wts.weights.w[k][2]])
              N == SumOver(scored, [k \in scored |-> wts.scores[k] * wts.weights.w[k][2]])
          IN D > 0 => wts.overall = Num(N \div D)
    /\ (/\ pc = "scored" /\ tool = "pypi_score"
        /\ (~wts.include_osv \/ wts.osv_count = None)) =>
          wts.overall = Num(Round1(wts.good * 10000, PypiOtherWeight, FALSE))


\* C16: two calls of the aggregator on the same inputs return the same
\* dimension scores, overall score and rating, whenever they are made.
C16_Deterministic ==
    (tool = "nuget_clock" /\ Len(runs) = 2) => runs[1] = runs[2]

(* sbom_supply_chain_risk.py: the findings of one dependency *)

Resolved == tool = "sbom" /\ pc # "input"

Pin2310 == <<"=", "=", "2", ".", "3", "1", ".", "0">>

Range123 == <<">", "=", "1", ".", "2", ".", "3", ",", "<", "2", ".", "0", ".", "0">>

\* C17: "==2.31.0" resolves to "2.31.0", marked exact, under every strategy;
\* ">=1.2.3,<2.0.0" resolves to "1.2.3", not marked exact, under lowerbound
\* and to no version under exact and none.
C17_VersionResolution ==
    Resolved =>
       /\ sbom.pkg.versionInfo = Pin2310 =>
             /\ sbom.assumed_version = <<"2", ".", "3", "1", ".", "0">>
             /\ sbom.has_exact
       /\ sbom.pkg.versionInfo = Range123 =>
             /\ sbom.assumed_version =
                   IF sbom.assume_version = "lowerbound"
                   THEN <<"1", ".", "2", ".", "3">> ELSE <<>>
             /\ ~sbom.has_exact

\* the specifier is an exact pin: a bare version, or one after == or =
IsExactPin(vi) == EXACT_RE(Strip(vi)) # <<>>

\* C18: a dependency is marked exact only if its specifier is an exact pin;
\* any other specifier, also one a strategy resolved to a version, stays
\* not exact and gets the not-pinned hygiene points.
C18_ExactOnlyForPins ==
    (Resolved /\ ~IsExactPin(sbom.pkg.versionInfo)) =>
       /\ ~sbom.has_exact
       /\ sbom.hygiene_points = base_hygiene_risk(sbom.pkg, FALSE)

PreRelease == <<"=", "=", "1", ".", "2", ".", "3", "-", "b", "e", "t", "a", ".", "1">>

BuildMeta == <<"1", ".", "2", ".", "3", "+", "b", "u", "i", "l", "d", "5">>

\* C19: an exact pin with a pre-release or build suffix resolves, under every
\* strategy, to the version with its suffix as written.
C19_SuffixPreserved ==
    Resolved =>
       /\ sbom.pkg.versionInfo = PreRelease =>
             sbom.assumed_version = SubSeq(PreRelease, 3, Len(PreRelease))
       /\ sbom.pkg.versionInfo = BuildMeta =>
             sbom.assumed_version = BuildMeta

\* C20: the vulnerability ids of one dependency's finding are pairwise
\* different, also when the database's answer lists an id twice.
C20_NoDuplicateIds ==
    (tool = "sbom" /\ pc = "queried") =>
       \A i, j \in 1..Len(sbom.vuln_ids) :
          i # j => sbom.vuln_ids[i] # sbom.vuln_ids[j]

(* sbom_supply_chain_risk.py: the batch lookup *)

\* a query was submitted for the i-th dependency
Submitted(i) ==
    /\ sbom.findings[i].purl
    /\ (sbom.findings[i].assumed_version # <<>> \/ sbom.include_unversioned)

\* the index of the i-th dependency's query in the batch
QueryIndexOf(i) == Cardinality({j \in 1..i : Submitted(j)})

\* C21: after a batch lookup each dependency has the ids of the answer's
\* entry at the index of its own query, cut at the per-package cap, and a
\* dependency without a query has none, also when dependencies share an
\* identifier.
C21_CorrelatedByPosition ==
    (tool = "sbom_batch" /\ pc = "reported") =>
       \A i \in 1..Len(sbom.findings) :
          sbom.findings[i].vuln_ids =
             IF Submitted(i)
             THEN LET all == StringIds(sbom.results[QueryIndexOf(i)])
                  IN SubSeq(all, 1, Min(Len(all), sbom.max_vulns_per_pkg))
             ELSE <<>>

\* C22: when the lookup of a batch fails the run still completes, with a
\* finding for every dependency; the failed lookup leaves empty id lists.
C22_FailureKeepsTheRun ==
    (tool = "sbom_batch" /\ sbom.batch_failed) =>
       /\ pc = "reported"
       /\ Len(sbom.findings) = Len(sbom.dep_ids)
       /\ \A i \in 1..Len(sbom.findings) : sbom.findings[i].vuln_ids = <<>>

\* C23: a lookup that failed and a lookup that succeeded without findings
\* hand different data to the scorer, and neither costs any points.
C23_FailedLookupDistinguishable ==
    (tool \in {"nuget_lookup", "conda_lookup", "pypi_lookup"}) =>
       \A i, j \in 1..Len(runs) :
          (runs[i].kind = "failed" /\ runs[j].kind = "zero") =>
             /\ runs[i].data # runs[j].data
             /\ runs[i].penalty = 0
             /\ runs[j].penalty = 0

(* compute_risk of nuget-audit.py and C#-audit.py: the sub-scores *)

\* no upstream repository is known: no repository URL and no GitHub data
NoRepoKnown == ~info.repo_url /\ gh = EmptyGh

\* the documented deductions of the repo posture, in hundredths
DocumentedRepoDeductions ==
    LET stars == IF IsNum(gh.stars) THEN gh.stars[2] ELSE 0
        age == IF IsNum(gh.pushed_at) THEN gh.pushed_at[2] ELSE 0
    IN (IF gh.archived \/ gh.disabled THEN 4000 ELSE 0)
       + (IF stars < 10 THEN 1000 ELSE IF stars < 100 THEN 500 ELSE 0)
       + (IF gh.pushed_at = None THEN 1000
          ELSE IF age > 365 THEN 2500 ELSE IF age > 180 THEN 1500
          ELSE IF age > 90 THEN 800 ELSE 0)

\* C24: without any known upstream repository the repo_posture score is the
\* neutral 60; with a known repository it is 100 less the documented
\* deductions (archived or disabled, stars, push timestamp).
C24_RepoPosture ==
    (pc = "scored" /\ tool \in {"nuget", "csharp"}) =>
       /\ NoRepoKnown => scores["repo_posture"] = 6000
       /\ info.repo_url =>
             scores["repo_posture"] = Max(0, 10000 - DocumentedRepoDeductions)

\* the licence text compute_risk scores, "" when none is known
ScoredLicense == LicenseText(info, gh)

\* C25: the license score is 80 without a license string, 90 for the GPL and
\* AGPL family, 95 for the LGPL and MPL family, 85 for NOASSERTION or an
\* unrecognized license, 100 for a recognized permissive license.
C25_LicenseScore ==
    (pc = "scored" /\ tool = "nuget") =>
       scores["license"] =
          CASE ScoredLicense = "" -> 8000
            [] ScoredLicense \in {"GPL-3.0", "AGPL-3.0"} -> 9000
            [] ScoredLicense \in {"LGPL-2.1", "MPL-2.0"} -> 9500
            [] ScoredLicense \in {"MIT", "APACHE-2.0"} -> 10000
            [] OTHER -> 8500

\* C27: the package with 0 downloads, last push 800 days ago, an archived
\* repository, no licence and a CRITICAL and a HIGH finding scores
\* vulnerabilities <= 20, repo_posture <= 35, license <= 80, popularity 0 and
\* an overall score below 60.
C27_AbandonedPackage ==
    (pc = "scored" /\ tool = "nuget") =>
       /\ scores["vulnerabilities"] <= 2000
       /\ scores["repo_posture"] <= 3500
       /\ scores["license"] <= 8000
       /\ scores["popularity"] = 0
       /\ overall[2] < 6000

(* dockeraudit.py *)

\* C28: the trust percentage evaluate_image returns lies in [0, 100].
C28_TrustScoreInRange ==
    (tool = "docker_score" /\ pc = "scored") =>
       (scores.percentage >= 0 /\ scores.percentage <= 10000)

(* sbom_supply_chain_risk.py: the lowerbound strategy *)

UpperBoundOnly == <<"<", "2", ".", "0", ".", "0">>

Exclusion == <<"!", "=", "1", ".", "2", ".", "3">>

\* C30: under lowerbound the version returned is one the specifier admits:
\* the pinned version of an exact pin, the inclusive lower bound of '>=x' and
\* '>=x,<y', and no version for a specifier without an inclusive lower bound
\* ('<2.0.0', '!=1.2.3').
C30_LowerBoundAdmitted ==
    (Resolved /\ sbom.assume_version = "lowerbound") =>
       LET vi == Strip(sbom.pkg.versionInfo)
       IN /\ IsExactPin(vi) => sbom.assumed_version = EXACT_RE(vi)
          /\ LOWERBOUND_RE(vi) # <<>> => sbom.assumed_version = LOWERBOUND_RE(vi)
          /\ RANGE_LOWERBOUND_RE(vi) # <<>> => sbom.assumed_version = RANGE_LOWERBOUND_RE(vi)
          /\ vi \in {UpperBoundOnly, Exclusion} => sbom.assumed_version = <<>>

(* sbom_supply_chain_risk.py: hygiene points *)

\* the dependency is a floating reference
FloatingReference ==
    \/ Lower(Strip(sbom.pkg.versionInfo)) \in
          {<<"m", "a", "i", "n">>, <<"m", "a", "s", "t", "e", "r">>,
           <<"h", "e", "a", "d">>, <<"t", "r", "u", "n", "k">>}
    \/ sbom.pkg.downloadLocation = "git+https://host/repo"

\* the hygiene rules that fire for the dependency, with their points
FiredRules ==
    (IF ~IsExactPin(sbom.pkg.versionInfo) THEN {<<"not pinned", 12>>} ELSE {})
    \cup (IF FloatingReference THEN {<<"floating", 18>>} ELSE {})
    \cup (IF sbom.pkg.downloadLocation = "NOASSERTION" THEN {<<"no download location", 5>>} ELSE {})
    \cup (IF ~sbom.pkg.filesAnalyzed THEN {<<"files not analyzed", 3>>} ELSE {})

\* C26: the hygiene points are the sum of 12 (not pinned), 18 (floating),
\* 5 (downloadLocation=NOASSERTION) and 3 (filesAnalyzed=false) over the
\* rules that fire, between 0 and 38, with one reason per fired rule, and
\* risk_points_total is the hygiene points plus the vulnerability points.
C26_HygieneAdditive ==
    Resolved =>
       /\ sbom.hygiene_points = SumOver(FiredRules, [r \in FiredRules |-> r[2]])
       /\ sbom.hygiene_points >= 0 /\ sbom.hygiene_points <= 38
       /\ Len(sbom.hygiene_reasons) = Cardinality(FiredRules)
       /\ sbom.risk_points_total = sbom.hygiene_points + sbom.vuln_points_total

(* nuget-audit.py: _get and _post *)

\* the attempt met a retryable failure
RetryableFailure(o) == o.exc \/ o.status \in {429, 500, 502, 503, 504}

\* the call made at most 3 attempts; it went on only after retryable
\* failures (or, in _post, a body that does not parse); once it returned, a
\* retryable failure as its last attempt was the third attempt, an error
\* status such as 404 ended it at once, and the result is None unless the
\* last attempt got a response that parses
HttpCallOk ==
    LET n == Len(http.log)
    IN /\ n <= 3
       /\ http.state \in {"running", "returned"}
       /\ \A k \in 1..(n - 1) :
             \/ RetryableFailure(http.log[k])
             \/ (http.helper = "_post" /\ http.log[k] = Response(200, FALSE))
       /\ http.state = "returned" =>
             /\ n >= 1
             /\ RetryableFailure(http.log[n]) => n = 3
             /\ http.result = "json" <=> http.log[n] = Response(200, TRUE)
       /\ (http.state = "running" /\ n >= 1) => http.log[n] # Response(404, FALSE)

\* C29: every call of _get and _post ends after at most 3 attempts without
\* raising: retryable failures (429, 500, 502, 503, 504, a transport
\* exception) are retried up to the third attempt, an error status such as
\* 404 ends the call at once, and a call without a successful response
\* returns None.
C29_HttpBoundedRetries ==
    /\ [](tool = "nuget_http" => HttpCallOk)
    /\ <>(tool = "nuget_http" => http.state = "returned")

\* a call that met 503, then 500, then a transport exception, and returned
\* None after the third attempt
C29_Witness ==
    /\ tool = "nuget_http"
    /\ http.state = "returned"
    /\ http.result = "none"
    /\ http.log = <<Response(503, FALSE), Response(500, FALSE), Raised>>

=============================================================================
